---- MODULE Spec2Model ----
(***************************************************************************)
(* TickyTock: the encrypted, event-driven data layer.                      *)
(*                                                                         *)
(*   auth.svelte.ts       unlock / lock / getDataStore / getSettings /     *)
(*                        updateSettings / connectToSync                   *)
(*   dataStore.svelte.ts  DataStore: in-memory cache fed by the change     *)
(*                        feed of EncryptedPouch                           *)
(*   activityStore        ActivityStore getters gated by the auth state    *)
(*                                                                         *)
(* EncryptedPouch and PouchDB are an external library: the local database  *)
(* is a map from document key to (revision, tombstone flag, envelope); an  *)
(* envelope is the pair (key it was encrypted under, plaintext body) and   *)
(* decrypts only under the same key.  Writes are asynchronous: a call      *)
(* leaves a request in flight, the database applies it later, and the      *)
(* change feed delivers the decrypted document to the DataStore later      *)
(* still.                                                                  *)
(***************************************************************************)
EXTENDS Integers, Sequences, FiniteSets, TLC

VARIABLES
    db,         \* local PouchDB of the account: DocKeys -> stored document
    stores,     \* every DataStore constructed so far (index = instance)
    appState,   \* _appState of auth.svelte.ts
    requests,   \* store.put / store.delete calls not yet acknowledged (a set:
                \* the database applies them in any order)
    accounts,   \* usernames of the account registry in localStorage
    activityTimer,  \* the pending inactivity timeout of auth.svelte.ts, if any
    crypt,      \* the EncryptionHelper instances, their calls and the envelopes made
    indicator   \* the SyncIndicator of the main view: its icon state, its
                \* animation queue, its pending timeouts and manual sync passes

vars == <<db, stores, appState, requests, accounts, activityTimer, crypt, indicator>>

----------------------------------------------------------------------------
(* Bounds of the model *)

\* operations in one run: DataStores constructed plus documents written
\* (store.put / store.delete calls in flight, and revisions in the database)
MaxOps == 4

----------------------------------------------------------------------------
(* Values *)

NoRev == 0          \* _rev undefined
Null == 0           \* to === null: the activity is running
NoId == ""          \* _id undefined
NoTz == "undefined" \* timezone undefined
NoError == ""       \* the call did not throw

AppId == "app1"
OtherAppId == "app2"    \* the appId of another device of the same account
Username == "alice"
Usernames == {"", Username}
Passwords == {"", "p1", "wrong"}

ActivityIdSeq == <<"a1", "a2">>
ActivityIds == {ActivityIdSeq[i] : i \in DOMAIN ActivityIdSeq}

DataFields == {"task", "tags", "from", "to", "timezone"}

\* Activities handed to saveActivity (without _id / _rev, which are added below)
ActivityInputs ==
    { [task |-> "write spec", tags |-> <<"work">>, from |-> 1, to |-> Null, timezone |-> "UTC"],
      [task |-> "review",     tags |-> <<>>,       from |-> 2, to |-> 3,    timezone |-> NoTz] }

\* Partial<Activity> handed to updateActivity: a function on a subset of the
\* fields ActivityStore.updateActivity lets its callers supply (task, tags,
\* from, to); no caller supplies _id or _rev
UpdateInputs ==
    { [f \in {"to"} |-> 3],
      [f \in {"task", "from"} |-> IF f = "task" THEN "review" ELSE 2] }

Url1 == "https://couch.example/db"
NoCouch == "undefined"

DEFAULT_THEME == "auto-blue"
DarkTheme == "dark-red"
NoTheme == "none"       \* applyTheme has not been called
DEFAULT_SETTINGS ==
    [autoStopRunning |-> TRUE, syncMode |-> "disabled", couchdb |-> NoCouch,
     theme |-> DEFAULT_THEME, _rev |-> NoRev]

\* Partial<Settings> handed to updateSettings
SettingsInputs ==
    { [f \in {"syncMode", "couchdb"} |-> IF f = "syncMode" THEN "couchdb" ELSE Url1],
      [f \in {"syncMode"} |-> "disabled"] }

getSettingsDocId(appId) == "settings-" \o appId

SettingsIdSeq == <<getSettingsDocId(AppId), getSettingsDocId(OtherAppId)>>

DocKeys ==
    {<<"activity", i>> : i \in ActivityIds}
        \cup {<<"settings", SettingsIdSeq[i]>> : i \in DOMAIN SettingsIdSeq}

NoBody == [none |-> TRUE]
\* input: the activity as it was handed to saveActivity (NoBody for a document
\* that was not written by saveActivity); kept beside the envelope for checking
NoDoc == [rev |-> NoRev, live |-> FALSE, key |-> "", body |-> NoBody, input |-> NoBody]

\* the replication of a DataStore: none, connectRemote pending, or attached;
\* awaited holds while a call of updateSettings is suspended at its
\* await connectToSync(dataStore), that is on a pending connectRemote
NoSync == [st |-> "none", url |-> NoCouch, awaited |-> FALSE]

Locked == [status |-> "locked"]

NoCrypt == <<>>      \* no EncryptionHelper has been constructed
NoTimer == <<>>      \* no timeout is pending (<<n>>: one is, with n ticks left)

\* the SyncIndicator as it is mounted: idle, nothing queued, no timeout
\* pending, no manual sync pass running (events counts the sync events of the
\* live replication it has handled)
IndicatorMounted ==
    [currentState |-> "idle", animationQueue |-> <<>>, isAnimating |-> FALSE,
     timers |-> 0, passes |-> 0, events |-> 0]

----------------------------------------------------------------------------
(* Pure helpers of DataStore *)

RECURSIVE findIndex(_, _, _)
\* Array.prototype.findIndex by _id, 1-based; 0 when absent
findIndex(acts, id, i) ==
    IF i > Len(acts) THEN 0
    ELSE IF acts[i]._id = id THEN i
    ELSE findIndex(acts, id, i + 1)

\* position at which JS's stable sort with (a, b) => b.from - a.from puts x
\* when x follows the elements of the already sorted `sorted`
InsertDesc(sorted, x) ==
    LET k == Cardinality({i \in DOMAIN sorted : sorted[i].from >= x.from})
    IN SubSeq(sorted, 1, k) \o <<x>> \o SubSeq(sorted, k + 1, Len(sorted))

RECURSIVE SortDesc(_)
SortDesc(acts) ==
    IF acts = <<>> THEN <<>>
    ELSE InsertDesc(SortDesc(SubSeq(acts, 1, Len(acts) - 1)), acts[Len(acts)])

\* DataStore.getActivityById: the cached document, or <<>> for undefined
getActivityById(st, id) ==
    LET i == findIndex(st.activities, id, 1)
    IN IF i = 0 THEN <<>> ELSE <<st.activities[i]>>


\* the data fields of an activity, as one record
DataOf(a) ==
    [task |-> a.task, tags |-> a.tags, from |-> a.from, to |-> a.to, timezone |-> a.timezone]

\* doc.f ?? d
Coalesce(doc, f, d) == IF f \in DOMAIN doc THEN doc[f] ELSE d

\* handleChange that pushes every delivered activity, known id or not
ApplyDoc_AlwaysPush(st, table, doc) ==
    IF table = "activity"
    THEN [st EXCEPT !.activities =
            Append(@, [_id |-> doc._id, _rev |-> doc._rev, task |-> doc.task,
                       tags |-> doc.tags, from |-> doc.from, to |-> doc.to,
                       timezone |-> doc.timezone])]
    ELSE st

\* handleChange that takes the first position for "not found"
ApplyDoc_SkipsFirst(st, table, doc) ==
    IF table = "activity" THEN
        LET existingIndex == findIndex(st.activities, doc._id, 1)
            activity == [_id |-> doc._id, _rev |-> doc._rev, task |-> doc.task,
                         tags |-> doc.tags, from |-> doc.from, to |-> doc.to,
                         timezone |-> doc.timezone]
        IN IF existingIndex >= 2
           THEN [st EXCEPT !.activities[existingIndex] = activity]
           ELSE [st EXCEPT !.activities = Append(@, activity)]
    ELSE st

\* handleChange that applies every settings document, whatever its _id
ApplyDoc_AnySettings(st, table, doc) ==
    IF table = "settings"
    THEN [st EXCEPT !.settings =
            [syncMode |-> Coalesce(doc, "syncMode", DEFAULT_SETTINGS.syncMode),
             autoStopRunning |-> Coalesce(doc, "autoStopRunning", DEFAULT_SETTINGS.autoStopRunning),
             couchdb |-> Coalesce(doc, "couchdb", NoCouch),
             theme |-> Coalesce(doc, "theme", DEFAULT_SETTINGS.theme),
             _rev |-> doc._rev],
                     !.themeApplied = Coalesce(doc, "theme", DEFAULT_SETTINGS.theme)]
    ELSE IF table = "activity" /\ findIndex(st.activities, doc._id, 1) = 0
    THEN [st EXCEPT !.activities =
            Append(@, [_id |-> doc._id, _rev |-> doc._rev, task |-> doc.task,
                       tags |-> doc.tags, from |-> doc.from, to |-> doc.to,
                       timezone |-> doc.timezone])]
    ELSE st

\* the body of the loop of handleChange, for one document of one table
ApplyDoc(st, table, doc) ==
    IF table = "activity" THEN
        LET existingIndex == findIndex(st.activities, doc._id, 1)
            activity == [_id |-> doc._id, _rev |-> doc._rev, task |-> doc.task,
                         tags |-> doc.tags, from |-> doc.from, to |-> doc.to,
                         timezone |-> doc.timezone]
        IN IF existingIndex >= 1
           THEN [st EXCEPT !.activities[existingIndex] = activity]
           ELSE [st EXCEPT !.activities = Append(@, activity)]
    ELSE IF table = "settings" THEN
        IF doc._id # getSettingsDocId(st.appId) THEN st
        ELSE [st EXCEPT !.settings =
                [syncMode |-> Coalesce(doc, "syncMode", DEFAULT_SETTINGS.syncMode),
                 autoStopRunning |-> Coalesce(doc, "autoStopRunning", DEFAULT_SETTINGS.autoStopRunning),
                 couchdb |-> Coalesce(doc, "couchdb", NoCouch),
                 theme |-> Coalesce(doc, "theme", DEFAULT_SETTINGS.theme),
                 _rev |-> doc._rev],
                         !.themeApplied = Coalesce(doc, "theme", DEFAULT_SETTINGS.theme)]
    ELSE st

RECURSIVE ApplyDocs(_, _, _, _)
ApplyDocs(st, table, docs, i) ==
    IF i > Len(docs) THEN st
    ELSE ApplyDocs(ApplyDoc(st, table, docs[i]), table, docs, i + 1)

RECURSIVE ApplyChanges(_, _, _)
ApplyChanges(st, changes, j) ==
    IF j > Len(changes) THEN st
    ELSE ApplyChanges(ApplyDocs(st, changes[j].table, changes[j].docs, 1), changes, j + 1)

\* handleChange without the final sort
handleChange_NoSort(st, changes) == ApplyChanges(st, changes, 1)

\* DataStore.handleChange: upsert every delivered document, then sort once
handleChange(st, changes) ==
    LET s1 == ApplyChanges(st, changes, 1)
    IN [s1 EXCEPT !.activities = SortDesc(@)]

RECURSIVE RemoveDocs(_, _, _, _)
RemoveDocs(st, table, docs, i) ==
    IF i > Len(docs) THEN st
    ELSE LET id == docs[i]._id
             Keep(a) == a._id # id
             s1 == IF table = "activity"
                   THEN [st EXCEPT !.activities = SelectSeq(@, Keep)]
                   ELSE st
         IN RemoveDocs(s1, table, docs, i + 1)

RECURSIVE handleDeleteFrom(_, _, _)
handleDeleteFrom(st, deletions, j) ==
    IF j > Len(deletions) THEN st
    ELSE handleDeleteFrom(RemoveDocs(st, deletions[j].table, deletions[j].docs, 1),
                          deletions, j + 1)

\* DataStore.handleDelete
handleDelete(st, deletions) == handleDeleteFrom(st, deletions, 1)

\* settings.ts getActiveSyncConfig: the CouchDB config, or NoCouch for null
getActiveSyncConfig(settings) ==
    IF settings.syncMode = "disabled" THEN NoCouch
    ELSE IF settings.syncMode = "couchdb" /\ settings.couchdb # NoCouch THEN settings.couchdb
    ELSE NoCouch

----------------------------------------------------------------------------
(* The encrypted store (EncryptedPouch over PouchDB) *)

\* decrypting an envelope succeeds only under the key it was written with
CanDecrypt(pass, entry) == entry.key = pass

\* the decrypted document the change feed hands to onChange
DocOf(key, entry) ==
    [f \in (DOMAIN entry.body) \cup {"_id", "_rev"} |->
        IF f = "_id" THEN key[2] ELSE IF f = "_rev" THEN entry.rev ELSE entry.body[f]]

LiveKeys(table) == {k \in DocKeys : k[1] = table /\ db[k].live}

RECURSIVE LiveActivityDocs(_)
\* allDocs: the live activity documents in _id order, from position i on
LiveActivityDocs(i) ==
    IF i > Len(ActivityIdSeq) THEN <<>>
    ELSE LET k == <<"activity", ActivityIdSeq[i]>>
         IN (IF db[k].live THEN <<DocOf(k, db[k])>> ELSE <<>>) \o LiveActivityDocs(i + 1)

RECURSIVE LiveSettingsDocs(_)
\* allDocs: the live settings documents in _id order, from position i on
LiveSettingsDocs(i) ==
    IF i > Len(SettingsIdSeq) THEN <<>>
    ELSE LET k == <<"settings", SettingsIdSeq[i]>>
         IN (IF db[k].live THEN <<DocOf(k, db[k])>> ELSE <<>>) \o LiveSettingsDocs(i + 1)

\* what EncryptedPouch.loadAll hands to onChange
LoadAllChanges ==
    <<[table |-> "activity", docs |-> LiveActivityDocs(1)],
      [table |-> "settings", docs |-> LiveSettingsDocs(1)]>>


----------------------------------------------------------------------------
(* DataStore *)

\* new DataStore(db, password, appId) followed by the synchronous part of loadAll
NewStore(username, password) ==
    [appId |-> AppId, user |-> username, pass |-> password,
     phase |-> "loading", isLoading |-> TRUE,
     activities |-> <<>>, settings |-> DEFAULT_SETTINGS,
     themeApplied |-> NoTheme,
     feed |-> <<>>, sync |-> NoSync, error |-> NoError]

Held(s) == appState.status = "unlocked" /\ appState.dataStore = s

\* { ...existing, ...updates }
Merge(existing, updates) ==
    [f \in (DOMAIN existing) \cup (DOMAIN updates) |->
        IF f \in DOMAIN updates THEN updates[f] ELSE existing[f]]

\* saveActivity that does not carry the revision over
saveActivityDoc_NoRev(activity) ==
    [_id |-> activity._id, _rev |-> NoRev,
     task |-> activity.task, tags |-> activity.tags, from |-> activity.from,
     to |-> activity.to, timezone |-> activity.timezone]

\* DataStore.saveActivity: the document handed to store.put
saveActivityDoc(activity) ==
    LET isUpdate == activity._id # NoId
    IN [_id |-> IF isUpdate THEN activity._id ELSE NoId,
        _rev |-> IF activity._rev # NoRev THEN activity._rev ELSE NoRev,
        task |-> activity.task, tags |-> activity.tags, from |-> activity.from,
        to |-> activity.to, timezone |-> activity.timezone]

\* DataStore.saveSettings: the document handed to store.put
saveSettingsDoc(st, settings) ==
    [_id |-> getSettingsDocId(st.appId),
     _rev |-> IF st.settings._rev # NoRev THEN st.settings._rev ELSE settings._rev,
     syncMode |-> settings.syncMode, autoStopRunning |-> settings.autoStopRunning,
     couchdb |-> settings.couchdb, theme |-> settings.theme]

\* DataStore.disconnectRemote: cancels an established replication
disconnectRemote(st) ==
    [st EXCEPT !.sync = IF @.st = "connected" THEN NoSync ELSE @]

\* connectToSync that calls connectRemote whatever the settings hold
connectToSyncStart_NoCheck(st) ==
    [st EXCEPT !.sync = [@ EXCEPT !.st = "connecting", !.url = getActiveSyncConfig(st.settings)]]

\* connectToSync up to its await: reads the settings of the DataStore, and
\* starts connectRemote when they hold an active config
connectToSyncStart(st) ==
    LET syncConfig == getActiveSyncConfig(st.settings)
    IN IF syncConfig = NoCouch THEN st
       ELSE [st EXCEPT !.sync = [@ EXCEPT !.st = "connecting", !.url = syncConfig]]

\* a DataStore the session has dropped: its cache stays in memory as it was
\* (events that reach it later are not followed: nothing can read it)
Orphaned(st) == [st EXCEPT !.feed = <<>>]

\* a dropped DataStore once a later one is published: its activities are
\* forgotten
Collected(st) == [st EXCEPT !.feed = <<>>, !.activities = <<>>]

RECURSIVE RevSum(_)
RevSum(keys) ==
    IF keys = {} THEN 0
    ELSE LET k == CHOOSE x \in keys : TRUE IN db[k].rev + RevSum(keys \ {k})

Used == Len(stores) + Cardinality(requests) + RevSum(DocKeys)
HasBudget == Used < MaxOps

InFlightIds == {req.doc._id : req \in requests}

\* store.put / store.delete is called: the request is in flight
Issue(req) ==
    /\ HasBudget
    /\ requests' = requests \cup {req}

\* saveActivity that also pushes the activity into the cache itself
SaveActivityOn_Optimistic(s, activity) ==
    /\ activity._id # NoId
    /\ HasBudget
    /\ requests' = requests \cup
          {[store |-> s, op |-> "put", table |-> "activity",
            doc |-> [_id |-> activity._id, _rev |-> activity._rev,
                     task |-> activity.task, tags |-> activity.tags,
                     from |-> activity.from, to |-> activity.to,
                     timezone |-> activity.timezone],
            input |-> DataOf(activity), cont |-> <<>>, written |-> FALSE]}
    /\ stores' = [stores EXCEPT ![s].activities = Append(@, activity)]
    /\ UNCHANGED <<db, appState>>

\* DataStore.saveActivity(activity) on the DataStore of the session
SaveActivityOn(s, activity) ==
    LET doc == saveActivityDoc(activity)
    IN /\ \E id \in ActivityIds :
            /\ IF doc._id = NoId
               THEN db[<<"activity", id>>].rev = NoRev /\ id \notin InFlightIds
               ELSE id = doc._id
            /\ Issue([store |-> s, op |-> "put", table |-> "activity",
                      doc |-> [doc EXCEPT !._id = id],
                      input |-> DataOf(activity), cont |-> <<>>, written |-> FALSE])
       /\ UNCHANGED <<db, stores, appState>>

\* the _rev a caller can copy from the cache (as { ...saved } does)
CachedRevs(st, id) ==
    IF getActivityById(st, id) = <<>> THEN {} ELSE {getActivityById(st, id)[1]._rev}

saveActivity(a, id, rev) ==
    /\ appState.status = "unlocked"
    /\ LET s == appState.dataStore
       IN /\ rev \in {NoRev} \cup CachedRevs(stores[s], id)
          /\ SaveActivityOn(s, Merge(a, [_id |-> id, _rev |-> rev]))

NotFound(id) == "Activity " \o id \o " not found"
\* the error updateActivity(id, ...) and deleteActivity(id) throw before any
\* write: the id is looked up in the cache
NotFoundError(st, id) ==
    IF getActivityById(st, id) = <<>> THEN NotFound(id) ELSE NoError

\* DataStore.updateActivity(id, updates): the activity handed to saveActivity
updatedActivity(st, id, updates) == Merge(getActivityById(st, id)[1], updates)

\* DataStore.updateActivity(id, updates)
updateActivity(id, updates) ==
    /\ appState.status = "unlocked"
    /\ LET s == appState.dataStore
       IN IF NotFoundError(stores[s], id) # NoError
          THEN UNCHANGED vars
          ELSE SaveActivityOn(s, updatedActivity(stores[s], id, updates))

\* deleteActivity without the lookup in the cache
deleteActivity_NoCheck(id) ==
    /\ appState.status = "unlocked"
    /\ Issue([store |-> appState.dataStore, op |-> "delete", table |-> "activity",
              doc |-> [_id |-> id], input |-> NoBody, cont |-> <<>>, written |-> FALSE])
    /\ UNCHANGED <<db, stores, appState>>

\* deleteActivity that also removes the activity from the cache itself
deleteActivity_Eager(id) ==
    /\ appState.status = "unlocked"
    /\ LET s == appState.dataStore
       IN IF NotFoundError(stores[s], id) # NoError
          THEN UNCHANGED vars
          ELSE /\ Issue([store |-> s, op |-> "delete", table |-> "activity",
                         doc |-> [_id |-> id], input |-> NoBody, cont |-> <<>>,
                         written |-> FALSE])
               /\ stores' = [stores EXCEPT ![s].activities =
                                SelectSeq(@, LAMBDA a : a._id # id)]
               /\ UNCHANGED <<db, appState>>

\* DataStore.deleteActivity(id)
deleteActivity(id) ==
    /\ appState.status = "unlocked"
    /\ LET s == appState.dataStore
       IN IF NotFoundError(stores[s], id) # NoError
          THEN UNCHANGED vars
          ELSE /\ Issue([store |-> s, op |-> "delete", table |-> "activity",
                         doc |-> [_id |-> id], input |-> NoBody, cont |-> <<>>,
                         written |-> FALSE])
               /\ UNCHANGED <<db, stores, appState>>

\* auth.svelte.ts updateSettings(partial), up to the await of saveSettings
updateSettings(partial) ==
    /\ appState.status = "unlocked"
    /\ LET s == appState.dataStore
           oldSettings == stores[s].settings
           newSettings == Merge(oldSettings, partial)
       IN Issue([store |-> s, op |-> "put", table |-> "settings",
                 doc |-> saveSettingsDoc(stores[s], newSettings),
                 input |-> NoBody,
                 cont |-> <<[old |-> oldSettings, new |-> newSettings]>>,
                 written |-> FALSE])
    /\ UNCHANGED <<db, stores, appState>>

\* updateSettings that reconnects after every settings write
AfterSaveSettings_Always(st, oldSettings, newSettings) ==
    connectToSyncStart(disconnectRemote(st))

\* updateSettings that starts connectToSync as unlock does, without awaiting it
AfterSaveSettings_NoAwait(st, oldSettings, newSettings) ==
    LET syncChanged == getActiveSyncConfig(oldSettings) # getActiveSyncConfig(newSettings)
    IN IF syncChanged THEN connectToSyncStart(disconnectRemote(st)) ELSE st

\* updateSettings after saveSettings has resolved: when the sync config
\* changed it disconnects and awaits connectToSync, which returns at once
\* without an active config and otherwise awaits connectRemote
AfterSaveSettings(st, oldSettings, newSettings) ==
    LET syncChanged == getActiveSyncConfig(oldSettings) # getActiveSyncConfig(newSettings)
        started == connectToSyncStart(disconnectRemote(st))
    IN IF ~syncChanged THEN st
       ELSE IF getActiveSyncConfig(st.settings) = NoCouch THEN started
       ELSE [started EXCEPT !.sync.awaited = TRUE]

----------------------------------------------------------------------------
(* The local database applies a request; the change feed *)

BodyOf(doc) == [f \in (DOMAIN doc) \ {"_id", "_rev"} |-> doc[f]]

\* a store that takes every put, whatever revision it names
Accepts_Any(entry, rev) == TRUE

\* PouchDB accepts a put that names the current revision, or none for a
\* document that does not exist
Accepts(entry, rev) == rev = entry.rev \/ (~entry.live /\ rev = NoRev)

\* the DataStores whose EncryptedPouch can decrypt a written envelope
Readers(sts, written) == {s \in DOMAIN sts : CanDecrypt(sts[s].pass, written)}

\* the change feed queues an event for the DataStore of the session, when it
\* is among the listeners that can read it
Enqueue(sts, ev, readers) ==
    [s \in DOMAIN sts |->
        IF Held(s) /\ s \in readers THEN [sts[s] EXCEPT !.feed = Append(@, ev)] ELSE sts[s]]

\* the local database applies a put.  The promise of a caller that goes on
\* after its await (updateSettings) resolves in a step of its own, Resolve: the
\* change event may be delivered before or after it
DbPut(req) ==
    LET k == <<req.table, req.doc._id>>
        entry == db[k]
        written == [rev |-> entry.rev + 1, live |-> TRUE, key |-> stores[req.store].pass,
                    body |-> BodyOf(req.doc), input |-> req.input]
    IN /\ req.op = "put"
       /\ ~req.written
       /\ IF Accepts(entry, req.doc._rev)
          THEN /\ db' = [db EXCEPT ![k] = written]
               /\ stores' = Enqueue(stores, [kind |-> "change", table |-> req.table,
                                             doc |-> DocOf(k, written)],
                                Readers(stores, written))
               /\ requests' = IF req.cont = <<>> THEN requests \ {req}
                              ELSE (requests \ {req}) \cup {[req EXCEPT !.written = TRUE]}
               /\ UNCHANGED appState
          ELSE /\ requests' = requests \ {req}
               /\ UNCHANGED <<db, stores, appState>>

\* saveSettings resolves and updateSettings runs to its end, or to its await
\* of connectToSync
Resolve(req) ==
    /\ req.written
    /\ requests' = requests \ {req}
    /\ stores' = [stores EXCEPT ![req.store] =
                     AfterSaveSettings(@, req.cont[1].old, req.cont[1].new)]
    /\ UNCHANGED <<db, appState>>

\* the local database applies a delete; the delete event carries no
\* ciphertext, so every listener can read it
DbDelete(req) ==
    LET k == <<req.table, req.doc._id>>
        entry == db[k]
    IN /\ req.op = "delete"
       /\ requests' = requests \ {req}
       /\ IF entry.live
          THEN /\ db' = [db EXCEPT ![k] = [NoDoc EXCEPT !.rev = entry.rev + 1]]
               /\ stores' = Enqueue(stores, [kind |-> "delete", table |-> req.table,
                                             doc |-> [_id |-> req.doc._id]], DOMAIN stores)
               /\ UNCHANGED appState
          ELSE UNCHANGED <<db, stores, appState>>

\* the change feed calls onChange / onDelete of the DataStore with the first
\* n pending events (consecutive events of one kind arrive as one batch)
Deliver(s, n) ==
    LET st == stores[s]
        batch == SubSeq(st.feed, 1, n)
        rest == SubSeq(st.feed, n + 1, Len(st.feed))
        entries == [j \in 1..n |-> [table |-> batch[j].table, docs |-> <<batch[j].doc>>]]
        st1 == IF batch[1].kind = "change" THEN handleChange(st, entries)
               ELSE handleDelete(st, entries)
    IN /\ n \in 1..Len(st.feed)
       /\ \A j \in 1..n : st.feed[j].kind = st.feed[1].kind
       /\ stores' = [stores EXCEPT ![s] = [st1 EXCEPT !.feed = rest]]
       /\ UNCHANGED <<db, appState, requests>>

Connected == {s \in DOMAIN stores : stores[s].sync.st = "connected"}

\* replication writes a document of another device into the local database
RemoteChange(s, id, a) ==
    LET k == <<"activity", id>>
        entry == db[k]
        written == [rev |-> entry.rev + 1, live |-> TRUE, key |-> stores[s].pass,
                    body |-> a, input |-> NoBody]
    IN /\ s \in Connected
       /\ HasBudget
       /\ db' = [db EXCEPT ![k] = written]
       /\ stores' = Enqueue(stores, [kind |-> "change", table |-> "activity",
                                     doc |-> DocOf(k, written)],
                                Readers(stores, written))
       /\ UNCHANGED <<appState, requests>>

\* replication deletes a document that another device deleted
RemoteDelete(s, id) ==
    LET k == <<"activity", id>>
        entry == db[k]
    IN /\ s \in Connected
       /\ entry.live
       /\ HasBudget
       /\ db' = [db EXCEPT ![k] = [NoDoc EXCEPT !.rev = entry.rev + 1]]
       /\ stores' = Enqueue(stores, [kind |-> "delete", table |-> "activity",
                                     doc |-> [_id |-> id]], DOMAIN stores)
       /\ UNCHANGED <<appState, requests>>

\* store.connectRemote resolves: replication is attached, and a call of
\* updateSettings that awaited it returns
ConnectDone(s) ==
    /\ stores[s].sync.st = "connecting"
    /\ stores' = [stores EXCEPT ![s].sync = [@ EXCEPT !.st = "connected", !.awaited = FALSE]]
    /\ UNCHANGED <<db, appState, requests>>

\* store.connectRemote rejects: connectToSync logs and swallows the error
ConnectFail(s) ==
    /\ stores[s].sync.st = "connecting"
    /\ stores' = [stores EXCEPT ![s].sync = NoSync]
    /\ UNCHANGED <<db, appState, requests>>


----------------------------------------------------------------------------
(* auth.svelte.ts *)

Required == "Username and password are required"
AccountNotFound == "Account not found"
InvalidPassphrase == "Invalid passphrase"
LockedError == "Cannot access database while locked"

\* unlock that does not look at its arguments first
ValidationError_None(username, password) == NoError

\* the error unlock throws before it opens the database
ValidationError(username, password) ==
    IF username = "" \/ password = "" THEN Required ELSE NoError

\* getAppId(username) returns null: unlock throws inside its try block
AccountError(username) ==
    IF username \notin accounts THEN AccountNotFound ELSE NoError

\* unlock(username, password) up to the await of dataStore.loadAll()
unlock(username, password) ==
    IF ValidationError(username, password) # NoError \/ AccountError(username) # NoError
    THEN UNCHANGED vars
    ELSE /\ HasBudget
         /\ stores' = Append(stores, NewStore(username, password))
         /\ UNCHANGED <<db, appState, requests>>

\* EncryptedPouch.loadAll decrypts every stored document
LoadDecrypts(st) == \A k \in DocKeys : db[k].live => CanDecrypt(st.pass, db[k])

\* DataStore.loadAll without its finally block
Loaded_StillLoading(st) == [handleChange(st, LoadAllChanges) EXCEPT !.phase = "ready"]

\* DataStore.loadAll after store.loadAll() has resolved
Loaded(st) ==
    [handleChange(st, LoadAllChanges) EXCEPT !.isLoading = FALSE, !.phase = "ready"]

\* unlock that lets the error of loadAll through as it is
LoadFailed_NoRemap(st) ==
    [st EXCEPT !.isLoading = FALSE, !.phase = "failed", !.error = "Incorrect passphrase"]

\* DataStore.loadAll after store.loadAll() has rejected; unlock rethrows the
\* InvalidPassphraseError of loadAll as Error('Invalid passphrase')
LoadFailed(st) == [st EXCEPT !.isLoading = FALSE, !.phase = "failed", !.error = InvalidPassphrase]

\* unlock that does not await loadAll before it publishes the DataStore
Unlocked_NoAwait(sts, s) ==
    [app |-> [status |-> "unlocked", username |-> sts[s].user, dataStore |-> s],
     stores |-> [i \in DOMAIN sts |->
                    IF i = s THEN [sts[s] EXCEPT !.phase = "ready"]
                    ELSE IF sts[i].phase = "loading" THEN sts[i]
                    ELSE Collected(sts[i])]]

\* unlock that awaits connectToSync: the DataStore is published only when no
\* connection is pending
Unlocked_AwaitsSync(sts, s) ==
    LET st == connectToSyncStart(Loaded(sts[s]))
    IN [app |-> IF st.sync.st = "connecting" THEN appState
                ELSE [status |-> "unlocked", username |-> sts[s].user, dataStore |-> s],
        stores |-> [i \in DOMAIN sts |->
                       IF i = s THEN st
                       ELSE IF sts[i].phase = "loading" THEN sts[i]
                       ELSE Collected(sts[i])]]

\* unlock after loadAll has resolved: starts connectToSync without awaiting
\* it, then publishes the DataStore
Unlocked(sts, s) ==
    [app |-> [status |-> "unlocked", username |-> sts[s].user, dataStore |-> s],
     stores |-> [i \in DOMAIN sts |->
                    IF i = s THEN connectToSyncStart(Loaded(sts[s]))
                    ELSE IF sts[i].phase = "loading" THEN sts[i]
                    ELSE Collected(sts[i])]]

\* dataStore.loadAll() settles and unlock runs to its end
LoadAllDone(s) ==
    /\ stores[s].phase = "loading"
    /\ IF LoadDecrypts(stores[s])
       THEN /\ appState' = Unlocked(stores, s).app
            /\ stores' = Unlocked(stores, s).stores
            /\ UNCHANGED <<db, requests>>
       ELSE /\ stores' = [stores EXCEPT ![s] = LoadFailed(@)]
            /\ UNCHANGED <<db, appState, requests>>

\* lock that drops the DataStore without disconnecting its sync
LockResult_NoDisconnect(app, sts) ==
    LET sts1 == IF app.status = "unlocked"
                THEN [sts EXCEPT ![app.dataStore] = Orphaned(@)]
                ELSE sts
    IN [app |-> Locked, stores |-> sts1]

\* lock that disconnects every DataStore, whatever the status
LockResult_Unguarded(app, sts) ==
    [app |-> Locked, stores |-> [i \in DOMAIN sts |-> Orphaned(disconnectRemote(sts[i]))]]

\* lock(): disconnect the sync of the session's DataStore, then drop it
LockResult(app, sts) ==
    LET sts1 == IF app.status = "unlocked"
                THEN [sts EXCEPT ![app.dataStore] = Orphaned(disconnectRemote(@))]
                ELSE sts
    IN [app |-> Locked, stores |-> sts1]

lock ==
    /\ appState' = LockResult(appState, stores).app
    /\ stores' = LockResult(appState, stores).stores
    /\ UNCHANGED <<db, requests>>

\* getDataStore without the check of the status
getDataStore_NoCheck ==
    [ok |-> TRUE, value |-> IF appState.status = "unlocked" THEN appState.dataStore ELSE Len(stores)]

\* getDataStore(): the DataStore, or the error it throws
getDataStore ==
    IF appState.status # "unlocked"
    THEN [ok |-> FALSE, error |-> LockedError]
    ELSE [ok |-> TRUE, value |-> appState.dataStore]

\* getSettings(): the settings, or <<>> for null
getSettings ==
    IF appState.status # "unlocked" THEN <<>>
    ELSE <<stores[appState.dataStore].settings>>

----------------------------------------------------------------------------
(* ActivityStore *)

\* get activities on a DataStore reference the ActivityStore kept
ActivityStore_activities_Kept ==
    IF stores = <<>> THEN <<>> ELSE stores[Len(stores)].activities

\* get activities
ActivityStore_activities ==
    IF appState.status # "unlocked" THEN <<>>
    ELSE stores[getDataStore.value].activities

\* get runningActivities
ActivityStore_runningActivities ==
    LET Running(a) == a.to = Null
    IN SelectSeq(ActivityStore_activities, Running)

\* get uniqueTasks, as a set
ActivityStore_uniqueTasks ==
    IF appState.status # "unlocked" THEN {}
    ELSE {ActivityStore_activities[i].task : i \in DOMAIN ActivityStore_activities}

\* get uniqueTags, as a set
ActivityStore_uniqueTags ==
    IF appState.status # "unlocked" THEN {}
    ELSE UNION {{ActivityStore_activities[i].tags[j] : j \in DOMAIN ActivityStore_activities[i].tags}
                    : i \in DOMAIN ActivityStore_activities}

----------------------------------------------------------------------------
(* Specification *)

Init ==
    /\ db = [k \in DocKeys |-> NoDoc]
    /\ stores = <<>>
    /\ appState = Locked
    /\ requests = {}
    /\ accounts = {Username}
    /\ activityTimer = NoTimer
    /\ crypt = NoCrypt
    /\ indicator = IndicatorMounted

\* the operations of the activity collection and of the session; none of them
\* writes the account registry
Next ==
    \/ (\E u \in Usernames, p \in Passwords : unlock(u, p)) /\ UNCHANGED <<accounts, activityTimer, crypt, indicator>>
    \/ (\E s \in DOMAIN stores : LoadAllDone(s)) /\ UNCHANGED <<accounts, activityTimer, crypt, indicator>>
    \/ lock /\ UNCHANGED <<accounts, activityTimer, crypt, indicator>>
    \/ (\E a \in ActivityInputs, id \in ActivityIds \cup {NoId}, rev \in 0..MaxOps :
          saveActivity(a, id, rev)) /\ UNCHANGED <<accounts, activityTimer, crypt, indicator>>
    \/ (\E id \in ActivityIds, u \in UpdateInputs : updateActivity(id, u)) /\ UNCHANGED <<accounts, activityTimer, crypt, indicator>>
    \/ (\E id \in ActivityIds : deleteActivity(id)) /\ UNCHANGED <<accounts, activityTimer, crypt, indicator>>
    \/ (\E partial \in SettingsInputs : updateSettings(partial)) /\ UNCHANGED <<accounts, activityTimer, crypt, indicator>>
    \/ (\E req \in requests : DbPut(req)) /\ UNCHANGED <<accounts, activityTimer, crypt, indicator>>
    \/ (\E req \in requests : DbDelete(req)) /\ UNCHANGED <<accounts, activityTimer, crypt, indicator>>
    \/ (\E req \in requests : Resolve(req)) /\ UNCHANGED <<accounts, activityTimer, crypt, indicator>>
    \/ (\E s \in DOMAIN stores, n \in 1..MaxOps : Deliver(s, n)) /\ UNCHANGED <<accounts, activityTimer, crypt, indicator>>
    \/ (\E s \in DOMAIN stores, id \in ActivityIds, a \in ActivityInputs :
          RemoteChange(s, id, a)) /\ UNCHANGED <<accounts, activityTimer, crypt, indicator>>
    \/ (\E s \in DOMAIN stores, id \in ActivityIds : RemoteDelete(s, id)) /\ UNCHANGED <<accounts, activityTimer, crypt, indicator>>
    \/ (\E s \in DOMAIN stores : ConnectDone(s)) /\ UNCHANGED <<accounts, activityTimer, crypt, indicator>>
    \/ (\E s \in DOMAIN stores : ConnectFail(s)) /\ UNCHANGED <<accounts, activityTimer, crypt, indicator>>

Spec == Init /\ [][Next]_vars

----------------------------------------------------------------------------
(* Properties of the activity collection *)

\* the DataStore of the session, in a state where the app is unlocked
Session == stores[appState.dataStore]

Quiet == appState.status = "unlocked" /\ Session.feed = <<>>

Positions(st, id) == {i \in DOMAIN st.activities : st.activities[i]._id = id}

\* C1: once the events of a write have been delivered to the DataStore of the
\* session, getActivityById(id) returns a document with the task, tags, from,
\* to and timezone that were saved, and returns nothing for a deleted id
C1_SavedIsCachedDeletedIsAbsent ==
    Quiet =>
        \A id \in ActivityIds :
            LET entry == db[<<"activity", id>>]
                cached == getActivityById(Session, id)
            IN /\ (entry.live /\ entry.input # NoBody /\ CanDecrypt(Session.pass, entry))
                    => (cached # <<>> /\ DataOf(cached[1]) = entry.input
                        /\ cached[1]._id = id)
               /\ (~entry.live /\ entry.rev # NoRev) => cached = <<>>

\* one activity was saved and is cached as saved, another was saved and then
\* deleted and is gone from the cache
C1_Witness ==
    /\ Quiet
    /\ requests = {}
    /\ \E id \in ActivityIds :
          /\ db[<<"activity", id>>].live
          /\ db[<<"activity", id>>].input # NoBody
          /\ getActivityById(Session, id) # <<>>
          /\ DataOf(getActivityById(Session, id)[1]) = db[<<"activity", id>>].input
    /\ \E id \in ActivityIds :
          /\ ~db[<<"activity", id>>].live
          /\ db[<<"activity", id>>].rev = 2
          /\ getActivityById(Session, id) = <<>>

SameActivities ==
    /\ DOMAIN stores' = DOMAIN stores
    /\ \A s \in DOMAIN stores : stores'[s].activities = stores[s].activities

SortedDesc(acts) ==
    \A i \in DOMAIN acts : \A j \in DOMAIN acts : i < j => acts[i].from >= acts[j].from

\* C3: the activities of a DataStore are always sorted by from, latest first
C3_ActivitiesSortedDescending ==
    \A s \in DOMAIN stores : SortedDesc(stores[s].activities)

\* a remote document with a later start arrived after a local one: it is first
C3_Witness ==
    /\ appState.status = "unlocked"
    /\ Len(Session.activities) = 2
    /\ Session.activities[1].from > Session.activities[2].from
    /\ db[<<"activity", Session.activities[1]._id>>].input = NoBody
    /\ db[<<"activity", Session.activities[2]._id>>].input # NoBody

----------------------------------------------------------------------------
(* Properties of the auth state machine *)

\* C4: when the initial load of an unlock fails to decrypt, the unlock fails
\* with 'Invalid passphrase' and the auth state is left as it was: a locked
\* app stays locked
C4_FailedLoadStaysLocked ==
    [][\A s \in DOMAIN stores :
          (LoadAllDone(s) /\ ~LoadDecrypts(stores[s]))
             => /\ stores'[s].error = InvalidPassphrase
                /\ stores'[s].phase = "failed"
                /\ stores'[s].activities = <<>>
                /\ appState' = appState
                /\ (appState.status = "locked" => appState'.status = "locked")]_vars

\* an unlock with another passphrase has failed on stored documents, and the
\* app is locked
C4_Witness ==
    /\ appState.status = "locked"
    /\ \E k \in DocKeys : db[k].live
    /\ \E s \in DOMAIN stores :
          /\ stores[s].phase = "failed"
          /\ stores[s].error = InvalidPassphrase
          /\ \E k \in DocKeys : db[k].live /\ ~CanDecrypt(stores[s].pass, db[k])

\* C5: while the app is locked nothing of the cache can be read: getDataStore
\* throws, getSettings returns null and the getters of the ActivityStore are
\* empty
C5_LockedReadsNothing ==
    appState.status = "locked" =>
        /\ ~getDataStore.ok
        /\ getSettings = <<>>
        /\ ActivityStore_activities = <<>>
        /\ ActivityStore_runningActivities = <<>>
        /\ ActivityStore_uniqueTasks = {}
        /\ ActivityStore_uniqueTags = {}

\* the app is locked and the DataStore it dropped still holds activities and
\* settings that were saved
C5_Witness ==
    /\ appState.status = "locked"
    /\ \E s \in DOMAIN stores :
          /\ stores[s].phase = "ready"
          /\ stores[s].activities # <<>>

\* C6: lock() on an unlocked app disconnects the established sync of the
\* session's DataStore and leaves the app locked
C6_LockDisconnectsThenLocks ==
    [][lock =>
          /\ appState'.status = "locked"
          /\ appState.status = "unlocked" =>
                /\ stores'[appState.dataStore].sync.st # "connected"
                /\ (stores[appState.dataStore].sync.st = "connected"
                       => stores'[appState.dataStore].sync = NoSync)]_vars

\* the app is locked, and the DataStore it dropped has settings with an active
\* sync config and no sync any more
C6_Witness ==
    /\ appState.status = "locked"
    /\ Connected = {}
    /\ \E s \in DOMAIN stores :
          /\ stores[s].phase = "ready"
          /\ getActiveSyncConfig(stores[s].settings) # NoCouch
          /\ stores[s].sync = NoSync

\* C7: getDataStore() throws 'Cannot access database while locked' while the
\* app is locked, and returns the one loaded DataStore of the auth state while
\* it is unlocked
C7_GetDataStore ==
    /\ appState.status = "locked"
          => getDataStore = [ok |-> FALSE, error |-> LockedError]
    /\ appState.status = "unlocked"
          => /\ getDataStore.ok
             /\ getDataStore.value = appState.dataStore
             /\ getDataStore.value \in DOMAIN stores
             /\ stores[getDataStore.value].phase = "ready"

\* a second session: the app is unlocked on the second DataStore, the first
\* one was dropped
C7_Witness ==
    /\ appState.status = "unlocked"
    /\ Len(stores) >= 2
    /\ getDataStore.ok
    /\ getDataStore.value = 2
    /\ stores[1].phase = "ready"

\* the activities of the database, as one set of documents
StoredActivities == {DocOf(k, db[k]) : k \in LiveKeys("activity")}

CachedActivities(st) == {st.activities[i] : i \in DOMAIN st.activities}

\* C8: an unlock that succeeds publishes a DataStore whose collection is
\* exactly the activities stored under the passphrase, each once and each
\* with the fields that were saved
C8_UnlockLoadsWhatWasSaved ==
    [][\A s \in DOMAIN stores :
          (LoadAllDone(s) /\ LoadDecrypts(stores[s]))
             => /\ appState'.status = "unlocked"
                /\ appState'.dataStore = s
                /\ CachedActivities(stores'[s]) = StoredActivities
                /\ Len(stores'[s].activities) = Cardinality(LiveKeys("activity"))
                /\ \A id \in ActivityIds :
                      LET entry == db[<<"activity", id>>]
                      IN (entry.live /\ entry.input # NoBody)
                            => /\ getActivityById(stores'[s], id) # <<>>
                               /\ DataOf(getActivityById(stores'[s], id)[1]) = entry.input]_vars

\* the second session under the same passphrase, nothing pending: it has the
\* running activity the first session saved
C8_Witness ==
    /\ Quiet
    /\ requests = {}
    /\ appState.dataStore = 2
    /\ stores[1].phase = "ready"
    /\ stores[1].pass = stores[2].pass
    /\ Len(Session.activities) = 1
    /\ Session.activities[1].to = Null
    /\ Session.activities[1]._rev = 1
    /\ db[<<"activity", Session.activities[1]._id>>].input = DataOf(Session.activities[1])

----------------------------------------------------------------------------
(* Properties of updateActivity and deleteActivity *)

Absent(id) == appState.status = "unlocked" /\ Positions(Session, id) = {}

\* C9: updateActivity and deleteActivity of an id that is not in the
\* collection fail with 'Activity <id> not found', issue no put and no delete,
\* and leave the collection as it was
C9_AbsentIdIsRejected ==
    [][\A id \in ActivityIds :
          Absent(id) =>
             /\ NotFoundError(Session, id) = "Activity " \o id \o " not found"
             /\ \/ UNCHANGED <<requests, db, stores>>
                \/ ~(deleteActivity(id) \/ \E u \in UpdateInputs : updateActivity(id, u))]_vars

\* the database has a document the cache does not have yet, and nothing is in
\* flight
C9_Witness ==
    /\ appState.status = "unlocked"
    /\ requests = {}
    /\ \E id \in ActivityIds :
          /\ Absent(id)
          /\ db[<<"activity", id>>].live
          /\ NotFoundError(Session, id) = NotFound(id)

\* C10: updateActivity of an id that is in the collection issues one put, of a
\* document with that id, the revision of the cached document, and every
\* field taken from the updates where they supply it and from the cached
\* document otherwise
C10_UpdateMergesOverCached ==
    [][\A id \in ActivityIds, u \in UpdateInputs :
          (~Absent(id) /\ updateActivity(id, u) /\ requests' # requests)
             => \E req \in requests' \ requests :
                   LET cached == Session.activities[CHOOSE i \in Positions(Session, id) : TRUE]
                   IN /\ requests' = requests \cup {req}
                      /\ req.op = "put"
                      /\ req.table = "activity"
                      /\ req.doc._id = id
                      /\ req.doc._rev = cached._rev
                      /\ \A f \in DataFields :
                            req.doc[f] = IF f \in DOMAIN u THEN u[f] ELSE cached[f]]_vars

\* a put is in flight for a cached document: it names the cached revision,
\* keeps the cached task and changes the end
C10_Witness ==
    /\ appState.status = "unlocked"
    /\ \E req \in requests :
          /\ req.op = "put"
          /\ req.table = "activity"
          /\ req.doc._rev # NoRev
          /\ \E i \in DOMAIN Session.activities :
                /\ Session.activities[i]._id = req.doc._id
                /\ Session.activities[i]._rev = req.doc._rev
                /\ Session.activities[i].task = req.doc.task
                /\ Session.activities[i].to # req.doc.to

----------------------------------------------------------------------------
(* Properties of handleChange *)

IdsOf(acts) == {acts[i]._id : i \in DOMAIN acts}

NoDuplicateIds(st) == Cardinality(IdsOf(st.activities)) = Len(st.activities)

\* the ids of the activity documents among the first n events of a feed
DeliveredIds(feed, n) == {feed[j].doc._id : j \in {i \in 1..n : feed[i].table = "activity"}}

\* C11: a delivered change event replaces the entry with its id, leaving the
\* number of entries as it was, or adds one entry for a new id; after every
\* step, no two entries of a collection share an id
C11_UpsertById ==
    [][/\ \A s \in DOMAIN stores' : NoDuplicateIds(stores'[s])
       /\ stores' # stores =>
             \A s \in DOMAIN stores, n \in 1..MaxOps :
                (Deliver(s, n) /\ stores[s].feed[1].kind = "change")
                   => LET old == stores[s].activities
                          new == stores'[s].activities
                          ids == DeliveredIds(stores[s].feed, n)
                      IN /\ Len(new) = Len(old) + Cardinality(ids \ IdsOf(old))
                         /\ IdsOf(new) = IdsOf(old) \cup ids
                         /\ \A i \in DOMAIN old :
                               old[i]._id \notin ids => old[i] \in {new[j] : j \in DOMAIN new}]_vars

\* one entry was replaced by a later revision and another was added: two
\* entries, two ids
C11_Witness ==
    /\ Quiet
    /\ Len(Session.activities) = 2
    /\ \E i \in DOMAIN Session.activities : Session.activities[i]._rev = 2
    /\ NoDuplicateIds(Session)

----------------------------------------------------------------------------
(* Settings, sync and delete-all: a second specification over the same state *)

Url2 == "https://other.example/db"

\* Partial<Settings> handed to updateSettings by SettingsView and ThemeSettings
SettingsUpdates ==
    { [f \in {"syncMode", "couchdb"} |-> IF f = "syncMode" THEN "couchdb" ELSE Url1],
      [f \in {"couchdb"} |-> Url2],
      [f \in {"syncMode"} |-> "disabled"],
      [f \in {"theme"} |-> DarkTheme] }

\* the settings document of another device, as it is stored on the remote
OtherSettings ==
    [syncMode |-> "couchdb", autoStopRunning |-> FALSE, couchdb |-> Url2, theme |-> DarkTheme]

\* replication writes the settings document of another device into the local
\* database
RemoteSettings(s) ==
    LET k == <<"settings", getSettingsDocId(OtherAppId)>>
        entry == db[k]
        written == [rev |-> entry.rev + 1, live |-> TRUE, key |-> stores[s].pass,
                    body |-> OtherSettings, input |-> NoBody]
    IN /\ s \in Connected
       /\ HasBudget
       /\ db' = [db EXCEPT ![k] = written]
       /\ stores' = Enqueue(stores, [kind |-> "change", table |-> "settings",
                                     doc |-> DocOf(k, written)],
                            Readers(stores, written))
       /\ UNCHANGED <<appState, requests>>

NextSettings ==
    \/ unlock(Username, "p1") /\ UNCHANGED <<accounts, activityTimer, crypt, indicator>>
    \/ (\E s \in DOMAIN stores : LoadAllDone(s)) /\ UNCHANGED <<accounts, activityTimer, crypt, indicator>>
    \/ lock /\ UNCHANGED <<accounts, activityTimer, crypt, indicator>>
    \/ (\E a \in ActivityInputs : saveActivity(a, NoId, NoRev)) /\ UNCHANGED <<accounts, activityTimer, crypt, indicator>>
    \/ (\E partial \in SettingsUpdates : updateSettings(partial)) /\ UNCHANGED <<accounts, activityTimer, crypt, indicator>>
    \/ (\E req \in requests : DbPut(req)) /\ UNCHANGED <<accounts, activityTimer, crypt, indicator>>
    \/ (\E req \in requests : Resolve(req)) /\ UNCHANGED <<accounts, activityTimer, crypt, indicator>>
    \/ (\E s \in DOMAIN stores, n \in 1..MaxOps : Deliver(s, n)) /\ UNCHANGED <<accounts, activityTimer, crypt, indicator>>
    \/ (\E s \in DOMAIN stores : RemoteSettings(s)) /\ UNCHANGED <<accounts, activityTimer, crypt, indicator>>
    \/ (\E s \in DOMAIN stores : ConnectDone(s)) /\ UNCHANGED <<accounts, activityTimer, crypt, indicator>>
    \/ (\E s \in DOMAIN stores : ConnectFail(s)) /\ UNCHANGED <<accounts, activityTimer, crypt, indicator>>

SpecSettings == Init /\ [][NextSettings]_vars

----------------------------------------------------------------------------
(* Properties of the settings *)

\* the settings a settings document is mapped to by handleChange
SettingsOf(doc) ==
    [syncMode |-> doc.syncMode, autoStopRunning |-> doc.autoStopRunning,
     couchdb |-> doc.couchdb, theme |-> doc.theme, _rev |-> doc._rev]

\* the positions, among the first n events of a feed, of the settings
\* documents with the id of the DataStore
OwnSettingsAt(st, n) ==
    {j \in 1..n : /\ st.feed[j].table = "settings"
                  /\ st.feed[j].doc._id = "settings-" \o st.appId}

Last(S) == CHOOSE j \in S : \A i \in S : i <= j

\* C12: a change event with a settings document of another id than
\* settings-<appId> leaves the settings and the applied theme as they were;
\* a settings document with that id replaces the settings
C12_ForeignSettingsDiscarded ==
    [][stores' # stores =>
          \A s \in DOMAIN stores, n \in 1..MaxOps :
             (Deliver(s, n) /\ stores[s].feed[1].kind = "change")
                => LET own == OwnSettingsAt(stores[s], n)
                   IN IF own = {}
                      THEN /\ stores'[s].settings = stores[s].settings
                           /\ stores'[s].themeApplied = stores[s].themeApplied
                      ELSE /\ stores'[s].settings = SettingsOf(stores[s].feed[Last(own)].doc)
                           /\ stores'[s].themeApplied = stores[s].feed[Last(own)].doc.theme]_vars

\* the settings document of another device has arrived and was delivered: the
\* session still has its own settings and theme
C12_Witness ==
    /\ Quiet
    /\ db[<<"settings", "settings-" \o OtherAppId>>].live
    /\ Session.settings.couchdb = Url1
    /\ Session.settings.theme = DEFAULT_THEME
    /\ Session.themeApplied = DEFAULT_THEME
    /\ Session.settings._rev = db[<<"settings", "settings-" \o AppId>>].rev

----------------------------------------------------------------------------
(* Properties of connectToSync *)

\* the DataStores on which this step has called connectRemote
ConnectCalled ==
    {s \in DOMAIN stores' :
        /\ stores'[s].sync.st = "connecting"
        /\ s \in DOMAIN stores => stores[s].sync # stores'[s].sync}

\* C13: connectToSync calls connectRemote only with the active sync config of
\* the settings of the DataStore, and calls it whenever unlock finds one; a
\* connection that fails is swallowed: the auth state and the cache of every
\* DataStore stay as they were
C13_ConnectToSyncNeverThrows ==
    [][stores' # stores =>
          /\ \A s \in ConnectCalled :
                /\ getActiveSyncConfig(stores'[s].settings) # NoCouch
                /\ stores'[s].sync.url = getActiveSyncConfig(stores'[s].settings)
          /\ \A s \in DOMAIN stores :
                /\ (LoadAllDone(s) /\ LoadDecrypts(stores[s]))
                      => (s \in ConnectCalled
                            <=> getActiveSyncConfig(stores'[s].settings) # NoCouch)
                /\ ConnectFail(s)
                      => /\ appState' = appState
                         /\ stores' = [stores EXCEPT ![s].sync = NoSync]]_vars

\* a second unlock found an active sync config, and its connection failed:
\* the session is unlocked with its settings and no replication
C13_Witness ==
    /\ Quiet
    /\ appState.dataStore = 2
    /\ requests = {}
    /\ getActiveSyncConfig(Session.settings) = Url1
    /\ Session.settings._rev = 1
    /\ db[<<"settings", "settings-" \o AppId>>].rev = 1
    /\ Session.sync = NoSync

----------------------------------------------------------------------------
(* Unlock and the remote connection *)

\* loadAll of the s-th DataStore settles
LoadSettles(s) == s \in DOMAIN stores /\ LoadAllDone(s) /\ UNCHANGED <<accounts, activityTimer, crypt, indicator>>

\* loadAll reads the local database and settles; nothing is assumed of the
\* remote: connectRemote may resolve, reject or stay pending for ever
NextUnlock ==
    \/ unlock(Username, "p1") /\ UNCHANGED <<accounts, activityTimer, crypt, indicator>>
    \/ (\E s \in DOMAIN stores : LoadAllDone(s)) /\ UNCHANGED <<accounts, activityTimer, crypt, indicator>>
    \/ lock /\ UNCHANGED <<accounts, activityTimer, crypt, indicator>>
    \/ saveActivity(CHOOSE a \in ActivityInputs : a.to = Null, NoId, NoRev) /\ UNCHANGED <<accounts, activityTimer, crypt, indicator>>
    \/ (\E partial \in SettingsInputs : updateSettings(partial)) /\ UNCHANGED <<accounts, activityTimer, crypt, indicator>>
    \/ (\E req \in requests : DbPut(req)) /\ UNCHANGED <<accounts, activityTimer, crypt, indicator>>
    \/ (\E req \in requests : Resolve(req)) /\ UNCHANGED <<accounts, activityTimer, crypt, indicator>>
    \/ (\E s \in DOMAIN stores : Deliver(s, 1)) /\ UNCHANGED <<accounts, activityTimer, crypt, indicator>>
    \/ (\E s \in DOMAIN stores : ConnectDone(s)) /\ UNCHANGED <<accounts, activityTimer, crypt, indicator>>
    \/ (\E s \in DOMAIN stores : ConnectFail(s)) /\ UNCHANGED <<accounts, activityTimer, crypt, indicator>>

SpecUnlock ==
    Init /\ [][NextUnlock]_vars /\ \A s \in 1..MaxOps : WF_vars(LoadSettles(s))

Loading(s) == s \in DOMAIN stores /\ stores[s].phase = "loading"

\* C14: loadAll of every unlock settles, and the step in which it settles
\* leaves the app unlocked on the DataStore of that unlock: the step that
\* starts the connection, whatever becomes of it; the outcome of the
\* connection never changes the auth state; a write of a DataStore is applied
\* by the local database whatever its sync state
C14_UnlockDoesNotWaitForSync ==
    /\ \A s \in 1..MaxOps : <>[](~Loading(s))
    /\ [][/\ \A s \in DOMAIN stores :
                /\ LoadAllDone(s) => (Held(s) /\ stores[s].phase = "ready")'
                /\ (ConnectDone(s) \/ ConnectFail(s)) => appState' = appState
          /\ \A req \in requests :
                (DbPut(req) /\ Accepts(db[<<req.table, req.doc._id>>], req.doc._rev))
                   => /\ db'[<<req.table, req.doc._id>>].live
                      /\ db'[<<req.table, req.doc._id>>].body = BodyOf(req.doc)]_vars

\* the second session found an active sync config and its connection is
\* still pending; the activity it saved meanwhile is stored and in its cache
C14_Witness ==
    /\ Quiet
    /\ appState.dataStore = 2
    /\ Session.sync.st = "connecting"
    /\ \E id \in ActivityIds :
          /\ db[<<"activity", id>>].input # NoBody
          /\ getActivityById(Session, id) # <<>>

----------------------------------------------------------------------------
(* Delete all data (SettingsView): a specification of its own *)

SyncNotEnabled == "Sync is not enabled. Use \"Delete Local Data\" instead."
DeleteLocalFailed == "Failed to delete local data. Please try again."
DeleteFailed == "Failed to delete data. Please try again."

\* handleDeleteLocalAndRemoteData that does not look at the settings
SyncEnabled_NoCheck(settings) == TRUE

\* the check of handleDeleteLocalAndRemoteData: sync mode couchdb with a URL
SyncEnabled(settings) ==
    settings.syncMode = "couchdb" /\ settings.couchdb \notin {NoCouch, ""}

\* a call of the delete-all of the store, in flight
DeleteAllRequest(s, op) ==
    [store |-> s, op |-> op, table |-> "", doc |-> [_id |-> NoId, _rev |-> NoRev],
     input |-> NoBody, cont |-> <<>>, written |-> FALSE]

\* handleDeleteLocalData, once the user has confirmed, up to the await of
\* dataStore.deleteAllLocal()
handleDeleteLocalData ==
    /\ appState.status = "unlocked"
    /\ Issue(DeleteAllRequest(appState.dataStore, "deleteAllLocal"))
    /\ UNCHANGED <<db, stores, appState, accounts, activityTimer, crypt, indicator>>

\* handleDeleteLocalAndRemoteData, once the user has confirmed, up to the
\* await of dataStore.deleteAllAndSync(); without sync it reports an error
\* and returns
handleDeleteLocalAndRemoteData ==
    /\ appState.status = "unlocked"
    /\ IF SyncEnabled(Session.settings)
       THEN /\ Issue(DeleteAllRequest(appState.dataStore, "deleteAllAndSync"))
            /\ UNCHANGED <<db, stores, appState, accounts, activityTimer, crypt, indicator>>
       ELSE /\ stores' = [stores EXCEPT ![appState.dataStore].error = SyncNotEnabled]
            /\ UNCHANGED <<db, appState, requests, accounts, activityTimer, crypt, indicator>>

\* the delete-all of the store rejects: deleteAllAndSync needs a connected
\* remote
DeleteAllRejects(req) ==
    req.op = "deleteAllAndSync" /\ stores[req.store].sync.st # "connected"

\* the store after its delete-all: replication is disconnected and the local
\* database, with its change feed, is gone
Wiped(st, own) ==
    [st EXCEPT !.feed = <<>>, !.sync = IF own THEN NoSync ELSE @]

\* DataStore.deleteAllLocal / deleteAllAndSync that leaves the cache as it is
deleteAllReset_Keep(st) == st

\* DataStore.deleteAllLocal / deleteAllAndSync after the await: the in-memory
\* state is cleared
deleteAllReset(st) == [st EXCEPT !.activities = <<>>, !.settings = DEFAULT_SETTINGS]

\* the delete-all of the store settles, and the handler goes on up to the
\* await inside deleteAccount: a rejection is reported and ends the handler;
\* otherwise the cache is cleared and the account leaves the registry
DeleteAllDone(req) ==
    LET s == req.store
        failed == IF req.op = "deleteAllLocal" THEN DeleteLocalFailed ELSE DeleteFailed
    IN /\ req.op \in {"deleteAllLocal", "deleteAllAndSync"}
       /\ IF DeleteAllRejects(req)
          THEN /\ stores' = [stores EXCEPT ![s].error = failed]
               /\ requests' = requests \ {req}
               /\ UNCHANGED <<db, appState, accounts, activityTimer, crypt, indicator>>
          ELSE /\ db' = [k \in DocKeys |-> [NoDoc EXCEPT !.rev = db[k].rev]]
               /\ UNCHANGED <<appState, activityTimer, crypt, indicator>>
               /\ IF stores[s].user \in accounts
                  THEN /\ stores' = [i \in DOMAIN stores |->
                                       IF i = s THEN deleteAllReset(Wiped(stores[i], TRUE))
                                       ELSE Wiped(stores[i], FALSE)]
                       /\ accounts' = accounts \ {stores[s].user}
                       /\ requests' = {r \in requests \ {req} : r.written \/ r.op \notin {"put", "delete"}}
                                         \cup {[req EXCEPT !.op = "destroy"]}
                  ELSE /\ stores' = [i \in DOMAIN stores |->
                                       IF i = s
                                       THEN [deleteAllReset(Wiped(stores[i], TRUE)) EXCEPT !.error = failed]
                                       ELSE Wiped(stores[i], FALSE)]
                       /\ accounts' = accounts
                       /\ requests' = {r \in requests \ {req} : r.written \/ r.op \notin {"put", "delete"}}

\* deleteAccount resolves and the handler locks the app
DeleteAccountDone(req) ==
    /\ req.op = "destroy"
    /\ requests' = requests \ {req}
    /\ appState' = LockResult(appState, stores).app
    /\ stores' = LockResult(appState, stores).stores
    /\ UNCHANGED <<db, accounts, activityTimer, crypt, indicator>>

NextDelete ==
    \/ unlock(Username, "p1") /\ UNCHANGED <<accounts, activityTimer, crypt, indicator>>
    \/ (\E s \in DOMAIN stores : LoadAllDone(s)) /\ UNCHANGED <<accounts, activityTimer, crypt, indicator>>
    \/ (\E a \in ActivityInputs : saveActivity(a, NoId, NoRev)) /\ UNCHANGED <<accounts, activityTimer, crypt, indicator>>
    \/ (\E partial \in SettingsInputs : updateSettings(partial)) /\ UNCHANGED <<accounts, activityTimer, crypt, indicator>>
    \/ (\E req \in requests : DbPut(req)) /\ UNCHANGED <<accounts, activityTimer, crypt, indicator>>
    \/ (\E req \in requests : Resolve(req)) /\ UNCHANGED <<accounts, activityTimer, crypt, indicator>>
    \/ (\E s \in DOMAIN stores, n \in 1..MaxOps : Deliver(s, n)) /\ UNCHANGED <<accounts, activityTimer, crypt, indicator>>
    \/ (\E s \in DOMAIN stores : ConnectDone(s)) /\ UNCHANGED <<accounts, activityTimer, crypt, indicator>>
    \/ (\E s \in DOMAIN stores : ConnectFail(s)) /\ UNCHANGED <<accounts, activityTimer, crypt, indicator>>
    \/ handleDeleteLocalData
    \/ handleDeleteLocalAndRemoteData
    \/ \E req \in requests : DeleteAllDone(req)
    \/ \E req \in requests : DeleteAccountDone(req)

SpecDelete == Init /\ [][NextDelete]_vars

\* the documents, cache, registry and auth state are as they were
NothingDeleted(s) ==
    /\ db' = db
    /\ accounts' = accounts
    /\ appState' = appState
    /\ stores'[s].activities = stores[s].activities
    /\ stores'[s].settings = stores[s].settings

\* C15: a delete of local and remote data without a remote reports an error
\* and deletes nothing: with sync mode disabled the handler reports "Sync is
\* not enabled" and calls nothing; a deleteAllAndSync that rejects is
\* reported as a failure; documents, cache, registry entry and auth state
\* are unchanged
C15_DeleteEverywhereNeedsRemote ==
    [][/\ (handleDeleteLocalAndRemoteData /\ getActiveSyncConfig(Session.settings) = NoCouch)
             => /\ stores'[appState.dataStore].error = SyncNotEnabled
                /\ requests' = requests
                /\ NothingDeleted(appState.dataStore)
       /\ \A req \in requests :
             (DeleteAllDone(req) /\ DeleteAllRejects(req))
                => /\ stores'[req.store].error = DeleteFailed
                   /\ NothingDeleted(req.store)]_vars

\* the session has saved an activity, sync is disabled, and the delete of
\* local and remote data has been refused
C15_Witness ==
    /\ appState.status = "unlocked"
    /\ Session.error = SyncNotEnabled
    /\ Session.settings.syncMode = "disabled"
    /\ Session.activities # <<>>
    /\ \E k \in DocKeys : db[k].live
    /\ Username \in accounts

\* every change event still pending in a feed is of a document the database
\* holds, at that revision or a later one
PendingAreStored(sts, d) ==
    \A s \in DOMAIN sts : \A j \in DOMAIN sts[s].feed :
       sts[s].feed[j].kind = "change"
          => LET e == sts[s].feed[j]
                 entry == d[<<e.table, e.doc._id>>]
             IN entry.live /\ entry.rev >= e.doc._rev

----------------------------------------------------------------------------
(* Properties of updateSettings *)

\* the settings write of req changes the effective sync config
SyncChanged(req) ==
    getActiveSyncConfig(req.cont[1].old) # getActiveSyncConfig(req.cont[1].new)

\* C17: when updateSettings changes the effective sync config, the connection
\* started once the write has resolved is to the config of the merged
\* settings, and none is started when that config is none, whether or not the
\* change event of the settings has been delivered by then
C17_ReconnectUsesNewConfig ==
    [][\A req \in requests :
          (Resolve(req) /\ SyncChanged(req))
             => LET new == getActiveSyncConfig(req.cont[1].new)
                IN IF new = NoCouch
                   THEN /\ stores'[req.store].sync.st # "connected"
                        /\ req.store \notin ConnectCalled
                   ELSE /\ stores'[req.store].sync.st = "connecting"
                        /\ stores'[req.store].sync.url = new]_vars


\* the fields of the settings, without the revision
SettingsFields(settings) == [f \in (DOMAIN settings) \ {"_id", "_rev"} |-> settings[f]]

\* C18: updateSettings hands the merged settings to the database, which
\* stores them; when the merge leaves the effective sync config as it was,
\* the end of updateSettings neither disconnects nor connects: the sync of
\* every DataStore is as it was
C18_SameConfigNoReconnect ==
    [][/\ \A partial \in SettingsUpdates :
             (updateSettings(partial) /\ requests' # requests)
                => \E req \in requests' \ requests :
                      /\ req.doc._id = "settings-" \o AppId
                      /\ SettingsFields(req.doc) = SettingsFields(Merge(Session.settings, partial))
       /\ \A req \in requests :
             /\ (DbPut(req) /\ req.table = "settings" /\ db' # db)
                   => db'[<<"settings", req.doc._id>>].body = SettingsFields(req.doc)
             /\ (Resolve(req) /\ ~SyncChanged(req))
                   => /\ ConnectCalled = {}
                      /\ \A s \in DOMAIN stores : stores'[s].sync = stores[s].sync]_vars

\* the session is connected, then changed its theme: the settings are stored
\* at their second revision, updateSettings has ended, the connection is the
\* same
C18_Witness ==
    /\ Quiet
    /\ requests = {}
    /\ Session.sync = [st |-> "connected", url |-> Url1, awaited |-> FALSE]
    /\ Session.settings.theme = DarkTheme
    /\ Session.settings._rev = 2
    /\ db[<<"settings", "settings-" \o AppId>>].body.theme = DarkTheme

----------------------------------------------------------------------------
(* getActiveSyncConfig over the settings a session can hold: a specification
   of its own *)

EmptyUrl == ""      \* a CouchDB config whose url is the empty string

\* the settings documents replication can bring
SettingsDocs ==
    [_id : {getSettingsDocId(AppId)}, _rev : {1},
     syncMode : {"disabled", "couchdb"}, autoStopRunning : BOOLEAN,
     couchdb : {NoCouch, EmptyUrl, Url1, Url2}, theme : {DEFAULT_THEME, DarkTheme}]

\* an unlocked session over an empty database
InitConfig ==
    /\ db = [k \in DocKeys |-> NoDoc]
    /\ stores = <<[NewStore(Username, "p1") EXCEPT !.isLoading = FALSE, !.phase = "ready"]>>
    /\ appState = [status |-> "unlocked", username |-> Username, dataStore |-> 1]
    /\ requests = {}
    /\ accounts = {Username}
    /\ activityTimer = NoTimer
    /\ crypt = NoCrypt
    /\ indicator = IndicatorMounted

\* replication writes the settings document of the account, and its change
\* event is delivered
ReceiveSettings(doc) ==
    /\ db' = [db EXCEPT ![<<"settings", doc._id>>] =
                 [rev |-> doc._rev, live |-> TRUE, key |-> stores[1].pass,
                  body |-> BodyOf(doc), input |-> NoBody]]
    /\ stores' = [stores EXCEPT ![1] = handleChange(@, <<[table |-> "settings", docs |-> <<doc>>]>>)]
    /\ UNCHANGED <<appState, requests, accounts, activityTimer, crypt, indicator>>

\* disconnectRemote, then connectToSync over the settings of the session
Reconnect ==
    /\ stores' = [stores EXCEPT ![1] = connectToSyncStart(disconnectRemote(@))]
    /\ UNCHANGED <<db, appState, requests, accounts, activityTimer, crypt, indicator>>

NextConfig ==
    \/ \E doc \in SettingsDocs : ReceiveSettings(doc)
    \/ Reconnect
    \/ ConnectDone(1) /\ UNCHANGED <<accounts, activityTimer, crypt, indicator>>
    \/ ConnectFail(1) /\ UNCHANGED <<accounts, activityTimer, crypt, indicator>>

SpecConfig == InitConfig /\ [][NextConfig]_vars

\* C19: getActiveSyncConfig returns the CouchDB config when the sync mode is
\* couchdb and the config is there with a URL that is not empty, and null in
\* every other case: mode disabled, config missing, URL empty
C19_ActiveConfigNeedsUrl ==
    LET settings == stores[1].settings
    IN getActiveSyncConfig(settings) =
          IF /\ settings.syncMode = "couchdb"
             /\ settings.couchdb \notin {NoCouch, EmptyUrl}
          THEN settings.couchdb
          ELSE NoCouch

----------------------------------------------------------------------------
(* One live DataStore *)

\* C20: while the app is unlocked, the only DataStore with a remote
\* replication attached is the one the auth state holds, whatever unlocks
\* and locks came before
C20_OneLiveDataStore ==
    appState.status = "unlocked" => \A s \in Connected : Held(s)

----------------------------------------------------------------------------
(* Who writes the cache: every public method of the DataStore over one
   session *)

NextWriter ==
    \/ unlock(Username, "p1") /\ UNCHANGED <<accounts, activityTimer, crypt, indicator>>
    \/ (\E s \in DOMAIN stores : LoadAllDone(s)) /\ UNCHANGED <<accounts, activityTimer, crypt, indicator>>
    \/ (\E a \in ActivityInputs : saveActivity(a, NoId, NoRev)) /\ UNCHANGED <<accounts, activityTimer, crypt, indicator>>
    \/ (\E id \in ActivityIds, u \in UpdateInputs : updateActivity(id, u)) /\ UNCHANGED <<accounts, activityTimer, crypt, indicator>>
    \/ (\E id \in ActivityIds : deleteActivity(id)) /\ UNCHANGED <<accounts, activityTimer, crypt, indicator>>
    \/ (\E partial \in SettingsInputs : updateSettings(partial)) /\ UNCHANGED <<accounts, activityTimer, crypt, indicator>>
    \/ (\E req \in requests : DbPut(req)) /\ UNCHANGED <<accounts, activityTimer, crypt, indicator>>
    \/ (\E req \in requests : DbDelete(req)) /\ UNCHANGED <<accounts, activityTimer, crypt, indicator>>
    \/ (\E req \in requests : Resolve(req)) /\ UNCHANGED <<accounts, activityTimer, crypt, indicator>>
    \/ (\E s \in DOMAIN stores, n \in 1..MaxOps : Deliver(s, n)) /\ UNCHANGED <<accounts, activityTimer, crypt, indicator>>
    \/ (\E s \in DOMAIN stores : ConnectDone(s)) /\ UNCHANGED <<accounts, activityTimer, crypt, indicator>>
    \/ (\E s \in DOMAIN stores : ConnectFail(s)) /\ UNCHANGED <<accounts, activityTimer, crypt, indicator>>
    \/ handleDeleteLocalData
    \/ handleDeleteLocalAndRemoteData
    \/ \E req \in requests : DeleteAllDone(req)
    \/ \E req \in requests : DeleteAccountDone(req)

SpecWriter == Init /\ [][NextWriter]_vars

\* the step writes the activities or the settings of the s-th DataStore
CacheWritten(s) ==
    \/ stores'[s].activities # stores[s].activities
    \/ stores'[s].settings # stores[s].settings

\* the step is a call of handleChange or handleDelete of the s-th DataStore:
\* a delivery of the change feed, or the events of loadAll
InHandler(s) ==
    \/ \E n \in 1..MaxOps : Deliver(s, n)
    \/ LoadAllDone(s)

\* the step is the end of deleteAllLocal / deleteAllAndSync of the s-th
\* DataStore
InDeleteAll(s) ==
    \E req \in requests : req.store = s /\ DeleteAllDone(req) /\ ~DeleteAllRejects(req)

----------------------------------------------------------------------------
(* Auto-lock on inactivity: a specification of its own *)

\* INACTIVITY_TIMEOUT, in ticks of the clock
InactivityWindow == 2

\* resetActivityTimer(): clears the pending timeout and sets a new one
resetActivityTimer ==
    /\ activityTimer' = <<InactivityWindow>>
    /\ UNCHANGED <<db, stores, appState, requests, accounts, crypt, indicator>>

\* recordActivity(): a user interaction
recordActivity ==
    IF appState.status = "unlocked" THEN resetActivityTimer ELSE UNCHANGED vars

\* time passes while a timeout is pending
Tick ==
    /\ activityTimer # NoTimer
    /\ activityTimer[1] > 0
    /\ activityTimer' = <<activityTimer[1] - 1>>
    /\ UNCHANGED <<db, stores, appState, requests, accounts, crypt, indicator>>

\* the timeout elapses: its callback locks an unlocked app
TimerFires ==
    /\ activityTimer = <<0>>
    /\ activityTimer' = NoTimer
    /\ IF appState.status = "unlocked"
       THEN /\ appState' = LockResult(appState, stores).app
            /\ stores' = LockResult(appState, stores).stores
       ELSE UNCHANGED <<appState, stores>>
    /\ UNCHANGED <<db, requests, accounts, crypt, indicator>>

NextTimer ==
    \/ unlock(Username, "p1") /\ UNCHANGED <<accounts, activityTimer, crypt, indicator>>
    \/ (\E s \in DOMAIN stores : LoadAllDone(s)) /\ UNCHANGED <<accounts, activityTimer, crypt, indicator>>
    \/ lock /\ UNCHANGED <<accounts, activityTimer, crypt, indicator>>
    \/ (\E a \in ActivityInputs : saveActivity(a, NoId, NoRev)) /\ UNCHANGED <<accounts, activityTimer, crypt, indicator>>
    \/ (\E req \in requests : DbPut(req)) /\ UNCHANGED <<accounts, activityTimer, crypt, indicator>>
    \/ (\E s \in DOMAIN stores : Deliver(s, 1)) /\ UNCHANGED <<accounts, activityTimer, crypt, indicator>>
    \/ recordActivity
    \/ Tick
    \/ TimerFires

\* the clock advances and a timeout that has elapsed runs its callback
SpecTimer == Init /\ [][NextTimer]_vars /\ WF_vars(Tick) /\ WF_vars(TimerFires)

\* C22: an unlocked session is locked in the end unless an interaction is
\* recorded and restarts the window
C22_AutoLock ==
    (appState.status = "unlocked")
       ~> (appState.status = "locked" \/ activityTimer = <<InactivityWindow>>)

----------------------------------------------------------------------------
(* The settings document *)

\* C23: once an unlock has succeeded the database holds the settings
\* document settings-<appId>, and every settings write of the app is a write
\* of that document
C23_SettingsCreatedOnFirstUnlock ==
    /\ (\E s \in DOMAIN stores : stores[s].phase = "ready")
          => db[<<"settings", getSettingsDocId(AppId)>>].rev > 0
    /\ \A req \in requests :
          req.table = "settings" => req.doc._id = getSettingsDocId(AppId)

----------------------------------------------------------------------------
(* EncryptionHelper (encryption.ts): strings, bytes and hex.  A string is the
   sequence of its UTF-16 code units; a byte is a number in 0..255; the text
   of an envelope is a sequence of characters *)

\* the plaintexts: empty, "a", "a" and NUL, U+00E9, U+1F30D (a surrogate pair),
\* "a" after a byte order mark U+FEFF, a high surrogate on its own, "a" and a
\* low surrogate on its own
Plaintexts ==
    {<<>>, <<97>>, <<97, 0>>, <<233>>, <<55356, 57101>>, <<65279, 97>>, <<55356>>,
     <<97, 57101>>}

\* the UTF-8 bytes of one code point
EncodeCodePoint(cp) ==
    IF cp < 128 THEN <<cp>>
    ELSE IF cp < 2048 THEN <<192 + (cp \div 64), 128 + (cp % 64)>>
    ELSE IF cp < 65536
         THEN <<224 + (cp \div 4096), 128 + ((cp \div 64) % 64), 128 + (cp % 64)>>
    ELSE <<240 + (cp \div 262144), 128 + ((cp \div 4096) % 64),
           128 + ((cp \div 64) % 64), 128 + (cp % 64)>>

\* new TextEncoder().encode(str), from code unit i on: a surrogate pair is one
\* code point, a surrogate on its own is replaced by U+FFFD
RECURSIVE TextEncode(_, _)
TextEncode(str, i) ==
    LET IsHigh(u) == u \in 55296..56319
        IsLow(u) == u \in 56320..57343
    IN IF i > Len(str) THEN <<>>
       ELSE IF IsHigh(str[i]) /\ i < Len(str) /\ IsLow(str[i + 1])
            THEN EncodeCodePoint(65536 + (str[i] - 55296) * 1024 + (str[i + 1] - 56320))
                    \o TextEncode(str, i + 2)
       ELSE IF IsHigh(str[i]) \/ IsLow(str[i])
            THEN EncodeCodePoint(65533) \o TextEncode(str, i + 1)
       ELSE EncodeCodePoint(str[i]) \o TextEncode(str, i + 1)

\* UTF-8 decoding from byte i on; a sequence that is not valid gives U+FFFD
\* for its longest valid start
RECURSIVE DecodeFrom(_, _)
DecodeFrom(bytes, i) ==
    IF i > Len(bytes) THEN <<>>
    ELSE LET lead == bytes[i]
             \* the number of bytes a sequence with this lead byte has (0: no lead)
             n == IF lead < 128 THEN 1
                  ELSE IF lead \in 194..223 THEN 2
                  ELSE IF lead \in 224..239 THEN 3
                  ELSE IF lead \in 240..244 THEN 4
                  ELSE 0
             \* the second byte is in the range the lead byte allows, the
             \* later ones are continuation bytes
             Follows(j) ==
                 /\ i + j <= Len(bytes)
                 /\ bytes[i + j] \in 128..191
                 /\ (j = 1 /\ lead = 224) => bytes[i + j] >= 160
                 /\ (j = 1 /\ lead = 237) => bytes[i + j] <= 159
                 /\ (j = 1 /\ lead = 240) => bytes[i + j] >= 144
                 /\ (j = 1 /\ lead = 244) => bytes[i + j] <= 143
             valid == {k \in 1..n : \A j \in 1..(k - 1) : Follows(j)}
             k == IF n = 0 THEN 1 ELSE CHOOSE m \in valid : \A o \in valid : o <= m
             cp == IF n = 1 THEN lead
                   ELSE IF n = 2 THEN (lead - 192) * 64 + (bytes[i + 1] - 128)
                   ELSE IF n = 3
                        THEN (lead - 224) * 4096 + (bytes[i + 1] - 128) * 64
                                + (bytes[i + 2] - 128)
                   ELSE (lead - 240) * 262144 + (bytes[i + 1] - 128) * 4096
                           + (bytes[i + 2] - 128) * 64 + (bytes[i + 3] - 128)
             units == IF cp < 65536 THEN <<cp>>
                      ELSE <<55296 + ((cp - 65536) \div 1024),
                             56320 + ((cp - 65536) % 1024)>>
         IN IF n # 0 /\ k = n
            THEN units \o DecodeFrom(bytes, i + n)
            ELSE <<65533>> \o DecodeFrom(bytes, i + k)

\* new TextDecoder().decode(bytes): UTF-8, not fatal, and ignoreBOM false: a
\* byte order mark at the start is taken off
TextDecode(bytes) ==
    IF Len(bytes) >= 3 /\ SubSeq(bytes, 1, 3) = <<239, 187, 191>>
    THEN DecodeFrom(bytes, 4)
    ELSE DecodeFrom(bytes, 1)

HexDigits == <<"0", "1", "2", "3", "4", "5", "6", "7", "8", "9", "a", "b", "c", "d", "e", "f">>

\* toHexString: two digits for every byte
RECURSIVE toHexString(_)
toHexString(bytes) ==
    IF bytes = <<>> THEN <<>>
    ELSE <<HexDigits[(Head(bytes) \div 16) + 1], HexDigits[(Head(bytes) % 16) + 1]>>
            \o toHexString(Tail(bytes))

\* parseInt(chunk, 16) of a chunk of one or two characters, <<n>> for the
\* number n and <<>> for NaN: the digits at the start are read and the rest
\* is dropped; "0x" is a prefix with no digits after it; a minus sign negates
parseInt16(chunk) ==
    LET IsHexDigit(c) == \E d \in DOMAIN HexDigits : HexDigits[d] = c
        HexValue(c) == (CHOOSE d \in DOMAIN HexDigits : HexDigits[d] = c) - 1
        c1 == chunk[1]
        two == Len(chunk) = 2
    IN IF c1 = "-"
       THEN IF two /\ IsHexDigit(chunk[2]) THEN <<0 - HexValue(chunk[2])>> ELSE <<>>
       ELSE IF ~IsHexDigit(c1) THEN <<>>
       ELSE IF ~two THEN <<HexValue(c1)>>
       ELSE IF IsHexDigit(chunk[2]) THEN <<16 * HexValue(c1) + HexValue(chunk[2])>>
       ELSE IF c1 = "0" /\ chunk[2] = "x" THEN <<>>
       ELSE <<HexValue(c1)>>

\* new Uint8Array(hexString.match(/.{1,2}/g).map(parseInt)): a Uint8Array
\* stores 0 for NaN and the number modulo 256 otherwise
RECURSIVE ChunkBytes(_)
ChunkBytes(str) ==
    LET ToUint8(x) == IF x = <<>> THEN 0 ELSE x[1] % 256
    IN IF str = <<>> THEN <<>>
       ELSE IF Len(str) = 1 THEN <<ToUint8(parseInt16(str))>>
       ELSE <<ToUint8(parseInt16(SubSeq(str, 1, 2)))>> \o ChunkBytes(SubSeq(str, 3, Len(str)))

\* fromHexString: throws on the empty string (no match), and maps every chunk
\* with parseInt otherwise
fromHexString(hexString) ==
    IF hexString = <<>> THEN [ok |-> FALSE, error |-> "Error"]
    ELSE [ok |-> TRUE, bytes |-> ChunkBytes(hexString)]

\* data.split('|')
RECURSIVE split(_)
split(data) ==
    IF \A i \in DOMAIN data : data[i] # "|" THEN <<data>>
    ELSE LET i == CHOOSE j \in DOMAIN data :
                     data[j] = "|" /\ \A k \in 1..(j - 1) : data[k] # "|"
         IN <<SubSeq(data, 1, i - 1)>> \o split(SubSeq(data, i + 1, Len(data)))

----------------------------------------------------------------------------
(* EncryptionHelper: encrypt and decrypt over the Web Crypto API, which is
   taken as ideal: the digest of a passphrase is its own, getRandomValues
   never gives the same value twice, and AES-GCM decrypts exactly the
   ciphertexts that were made with the same key and IV *)

MaxEnc == 2
MaxCalls == 2

\* getKey that gives every helper the same key
deriveKey_Shared(passphrase) == 17

\* getKey, its result: the AES key of the helper, imported from the SHA-256
\* digest of its passphrase
deriveKey(passphrase) == IF passphrase = "p1" THEN 17 ELSE 42

\* the values getRandomValues(new Uint8Array(12)) has not given yet
FreshValues ==
    {[i \in 1..12 |-> (n * 16 + i * 21) % 256] : n \in 1..MaxEnc}
       \ {crypt.made[k].iv : k \in DOMAIN crypt.made}

\* subtle.encrypt({name: 'AES-GCM', iv}, key, encoded): the ciphertext and
\* its 16 bytes of tag
AesGcmEncrypt(key, iv, encoded) ==
    [i \in 1..Len(encoded) |-> (encoded[i] + key + iv[1] + i) % 256]
       \o [j \in 1..16 |-> IF j = 1 THEN key ELSE (key * 7 + j * 37 + iv[1]) % 256]

\* subtle.decrypt({name: 'AES-GCM', iv}, key, ciphertext): the plaintext of
\* the ciphertext made with this key and IV, or an OperationError
AesGcmDecrypt(made, key, iv, ciphertext) ==
    LET hits == {k \in DOMAIN made :
                    made[k].key = key /\ made[k].iv = iv /\ made[k].ct = ciphertext}
    IN IF hits = {} THEN [ok |-> FALSE, error |-> "OperationError"]
       ELSE [ok |-> TRUE, bytes |-> made[CHOOSE k \in hits : TRUE].encoded]

\* encrypt that takes the IV of the first encryption again
IvOf_Reused(made, random) == IF made = <<>> THEN random ELSE made[1].iv

\* encrypt: the IV is the value getRandomValues gives to this call
IvOf(made, random) == random

\* decrypt(data) of a helper with this passphrase
decrypt(made, passphrase, data) ==
    LET DecryptionError == [ok |-> FALSE, error |-> "DecryptionError"]
        \* catch: a DecryptionError is thrown again, every other error is
        \* wrapped in one
        Wrapped(result) ==
            IF result.ok \/ result.error = "DecryptionError" THEN result
            ELSE DecryptionError
        key == deriveKey(passphrase)
        parts == split(data)
    IN IF Len(parts) # 2 THEN DecryptionError
       ELSE LET iv == fromHexString(parts[1])
                ciphertext == fromHexString(parts[2])
            IN IF ~iv.ok THEN Wrapped(iv)
               ELSE IF ~ciphertext.ok THEN Wrapped(ciphertext)
               ELSE LET decrypted == AesGcmDecrypt(made, key, iv.bytes, ciphertext.bytes)
                    IN IF ~decrypted.ok THEN Wrapped(decrypted)
                       ELSE [ok |-> TRUE, value |-> TextDecode(decrypted.bytes)]

\* no helper has made an encryption or been asked for a decryption, and
\* the keyPromise of every helper is null
InitCrypto ==
    /\ db = [k \in DocKeys |-> NoDoc]
    /\ stores = <<>>
    /\ appState = Locked
    /\ requests = {}
    /\ accounts = {Username}
    /\ activityTimer = NoTimer
    /\ crypt = [made |-> <<>>, last |-> <<>>,
                helpers |-> [passphrase \in Passwords \ {""} |->
                               [keyPromise |-> <<>>, digests |-> 0, imports |-> 0,
                                calls |-> [c \in 1..MaxCalls |-> [pc |-> "idle", key |-> <<>>]]]]]
    /\ indicator = IndicatorMounted

\* helper.encrypt(data) of a helper with this passphrase
Encrypt(passphrase, data) ==
    /\ Len(crypt.made) < MaxEnc
    /\ \E random \in FreshValues :
          LET key == deriveKey(passphrase)
              encoded == TextEncode(data, 1)
              iv == IvOf(crypt.made, random)
              ciphertext == AesGcmEncrypt(key, iv, encoded)
          IN crypt' = [crypt EXCEPT !.made =
                          Append(@, [passphrase |-> passphrase, data |-> data, key |-> key,
                                     iv |-> iv, encoded |-> encoded, ct |-> ciphertext,
                                     out |-> toHexString(iv) \o <<"|">>
                                                \o toHexString(ciphertext)])]
    /\ UNCHANGED <<db, stores, appState, requests, accounts, activityTimer, indicator>>

\* the texts decrypt is asked for: texts that are not envelopes, and for
\* every envelope made: the envelope, the envelope without its separator,
\* with a second separator, with a digit of the ciphertext changed, and with
\* loose hex in the ciphertext
DecryptInputs ==
    LET \* the hex of bytes, with every byte under 16 written as its digit
        \* and a "g"
        LooseHex(bytes) ==
            [i \in 1..(2 * Len(bytes)) |->
                LET b == bytes[(i + 1) \div 2]
                IN IF i % 2 = 1
                   THEN HexDigits[(IF b < 16 THEN b ELSE b \div 16) + 1]
                   ELSE IF b < 16 THEN "g" ELSE HexDigits[(b % 16) + 1]]
        Variants(e) ==
            {e.out,
             toHexString(e.iv) \o toHexString(e.ct),
             e.out \o <<"|">>,
             toHexString(e.iv) \o <<"|">>
                \o toHexString([e.ct EXCEPT ![1] = (@ + 1) % 256]),
             toHexString(e.iv) \o <<"|">> \o LooseHex(e.ct)}
    IN {<<>>, <<"g", "g">>, <<"g", "g", "|", "g", "g">>, <<"|">>, <<"0", "a", "|">>}
          \cup UNION {Variants(crypt.made[k]) : k \in DOMAIN crypt.made}

\* helper.decrypt(data) of a helper with this passphrase
Decrypt(passphrase, data) ==
    /\ crypt' = [crypt EXCEPT !.last =
                    <<[passphrase |-> passphrase, data |-> data,
                       result |-> decrypt(crypt.made, passphrase, data)]>>]
    /\ UNCHANGED <<db, stores, appState, requests, accounts, activityTimer, indicator>>

NextCrypto ==
    \/ \E passphrase \in Passwords \ {""}, data \in Plaintexts : Encrypt(passphrase, data)
    \/ \E passphrase \in Passwords \ {""}, data \in DecryptInputs : Decrypt(passphrase, data)

SpecCrypto == InitCrypto /\ [][NextCrypto]_vars

\* the helpers of two passphrases encrypting "a" and "a" after a byte order
\* mark, again and again, and decrypting
NextIsolation ==
    \/ \E passphrase \in Passwords \ {""}, data \in {<<97>>, <<65279, 97>>} :
          Encrypt(passphrase, data)
    \/ \E passphrase \in Passwords \ {""}, data \in DecryptInputs : Decrypt(passphrase, data)

SpecIsolation == InitCrypto /\ [][NextIsolation]_vars

----------------------------------------------------------------------------
(* EncryptionHelper.getKey, step by step: the calls of encrypt and decrypt
   that a helper has running at once *)

\* getKey up to its await: the cached promise is returned when there is one,
\* and the digest of the passphrase is asked for otherwise
getKey(passphrase, c) ==
    LET helper == crypt.helpers[passphrase]
    IN /\ helper.calls[c].pc = "idle"
       /\ crypt' = [crypt EXCEPT !.helpers[passphrase] =
                       IF helper.keyPromise # <<>>
                       THEN [helper EXCEPT !.calls[c] =
                                [pc |-> "done", key |-> helper.keyPromise]]
                       ELSE [helper EXCEPT !.digests = @ + 1,
                                           !.calls[c] = [pc |-> "digest", key |-> <<>>]]]
       /\ UNCHANGED <<db, stores, appState, requests, accounts, activityTimer, indicator>>

\* getKey after its await: the digest is there, importKey is called, and its
\* promise is stored in keyPromise and returned
DigestResolves(passphrase, c) ==
    LET helper == crypt.helpers[passphrase]
        imported == <<[material |-> deriveKey(passphrase), object |-> helper.imports + 1]>>
    IN /\ helper.calls[c].pc = "digest"
       /\ crypt' = [crypt EXCEPT !.helpers[passphrase] =
                       [helper EXCEPT !.imports = @ + 1,
                                      !.keyPromise = imported,
                                      !.calls[c] = [pc |-> "done", key |-> imported]]]
       /\ UNCHANGED <<db, stores, appState, requests, accounts, activityTimer, indicator>>

NextKey ==
    \/ \E passphrase \in Passwords \ {""}, c \in 1..MaxCalls : getKey(passphrase, c)
    \/ \E passphrase \in Passwords \ {""}, c \in 1..MaxCalls : DigestResolves(passphrase, c)

SpecKey == InitCrypto /\ [][NextKey]_vars

\* C24: decrypting an envelope with the passphrase it was made with gives the
\* string that was encrypted
C24_RoundTrip ==
    \A k \in DOMAIN crypt.made :
       LET e == crypt.made[k]
       IN decrypt(crypt.made, e.passphrase, e.out) = [ok |-> TRUE, value |-> e.data]

\* C25: a helper with another passphrase than the one an envelope was made
\* with fails to decrypt it with a DecryptionError, whichever of the two
\* passphrases made it
C25_KeyIsolation ==
    /\ \A k \in DOMAIN crypt.made, passphrase \in Passwords \ {""} :
          passphrase # crypt.made[k].passphrase
             => decrypt(crypt.made, passphrase, crypt.made[k].out)
                   = [ok |-> FALSE, error |-> "DecryptionError"]
    /\ \A k \in DOMAIN crypt.made, l \in DOMAIN crypt.last :
          (crypt.last[l].data = crypt.made[k].out
             /\ crypt.last[l].passphrase # crypt.made[k].passphrase)
             => crypt.last[l].result = [ok |-> FALSE, error |-> "DecryptionError"]

\* an envelope of each passphrase has been made, and the last decryption, of
\* one of them with the passphrase of the other, failed
C25_Witness ==
    /\ Len(crypt.made) = 2
    /\ crypt.made[1].passphrase = "p1"
    /\ crypt.made[2].passphrase # "p1"
    /\ crypt.made[1].data = crypt.made[2].data
    /\ crypt.last # <<>>
    /\ crypt.last[1].data = crypt.made[2].out
    /\ crypt.last[1].passphrase = "p1"
    /\ ~crypt.last[1].result.ok

C27_MalformedEnvelopeRejected ==
    \A l \in DOMAIN crypt.last :
       LET data == crypt.last[l].data
           separators == {i \in DOMAIN data : data[i] = "|"}
           hex == {HexDigits[d] : d \in DOMAIN HexDigits}
       IN (Cardinality(separators) # 1
             \/ \E i \in DOMAIN data \ separators : data[i] \notin hex)
             => crypt.last[l].result = [ok |-> FALSE, error |-> "DecryptionError"]

\* C28: a helper hashes its passphrase and imports the key at most once,
\* and all its calls get the same key
C28_KeyDerivedOnce ==
    \A passphrase \in DOMAIN crypt.helpers :
       LET helper == crypt.helpers[passphrase]
       IN /\ helper.digests <= 1
          /\ helper.imports <= 1
          /\ \A c1, c2 \in DOMAIN helper.calls :
                (helper.calls[c1].pc = "done" /\ helper.calls[c2].pc = "done")
                   => helper.calls[c1].key = helper.calls[c2].key

\* C29: unlock with an empty username or an empty password throws the
\* validation error, and changes nothing: no DataStore is constructed, no
\* database is touched, the auth state stays as it is
C29_EmptyCredentialsRejected ==
    \A u \in Usernames, p \in Passwords :
       (u = "" \/ p = "")
          => /\ ValidationError(u, p) = Required
             /\ ~ENABLED <<unlock(u, p) /\ UNCHANGED <<accounts, activityTimer, crypt, indicator>>>>_vars

\* a session is open and an unlock with the username and a password would
\* construct a DataStore, while one with an empty password constructs none
C29_Witness ==
    /\ appState.status = "unlocked"
    /\ ENABLED <<unlock(Username, "p1") /\ UNCHANGED <<accounts, activityTimer, crypt, indicator>>>>_vars
    /\ ~ENABLED <<unlock(Username, "") /\ UNCHANGED <<accounts, activityTimer, crypt, indicator>>>>_vars
    /\ ValidationError(Username, "") = Required

\* C30: lock while locked changes nothing (no DataStore is disconnected, the
\* state stays locked), and in every state locking twice gives what locking
\* once gives
C30_LockIdempotent ==
    LET once == LockResult(appState, stores)
    IN /\ LockResult(once.app, once.stores) = once
       /\ appState.status = "locked"
             => /\ once = [app |-> appState, stores |-> stores]
                /\ ~ENABLED <<lock /\ UNCHANGED <<accounts, activityTimer, crypt, indicator>>>>_vars

\* the app has been locked after a session whose DataStore had a sync
\* connection pending, which has been made since
C30_Witness ==
    /\ appState.status = "locked"
    /\ \E s \in DOMAIN stores : stores[s].phase = "ready" /\ stores[s].sync.st = "connected"

----------------------------------------------------------------------------
(* Properties of the session as a whole *)

\* C31: while the app is unlocked the DataStore of the session has finished
\* loadAll (isLoading is false), and in the step that publishes a DataStore
\* its collection holds every activity stored at that moment
C31_UnlockedMeansLoaded ==
    /\ [](appState.status = "unlocked"
             => (~Session.isLoading /\ Session.phase = "ready" /\ Session.error = NoError))
    /\ [][(appState' # appState /\ appState'.status = "unlocked")
             => /\ ~stores'[appState'.dataStore].isLoading
                /\ IdsOf(stores'[appState'.dataStore].activities)
                      = {k[2] : k \in LiveKeys("activity")}
                /\ Len(stores'[appState'.dataStore].activities)
                      = Cardinality(LiveKeys("activity"))]_vars

\* the app is unlocked on a DataStore that found two stored activities when
\* it loaded, and nothing has been delivered to it since
C31_Witness ==
    /\ appState.status = "unlocked"
    /\ Session.feed = <<>>
    /\ requests = {}
    /\ ~Session.isLoading
    /\ Len(Session.activities) = 2
    /\ \A i \in DOMAIN stores : i # appState.dataStore => stores[i].activities = <<>>
    /\ IdsOf(Session.activities) = {k[2] : k \in LiveKeys("activity")}

\* C32: while the app is locked no DataStore of an earlier unlock has a
\* replication attached or pending, and none has change events to take
C32_LockedMeansDetached ==
    appState.status = "locked"
       => \A s \in DOMAIN stores :
             /\ stores[s].sync.st # "connected"
             /\ stores[s].feed = <<>>

----------------------------------------------------------------------------
(* ActivityStore.startActivity: a specification of its own.  A call that is
   suspended at an await lives in the continuation of the put it awaits:
   running is its list of the ids to stop, i the position in that list of
   the activity the put stops (Len(running) + 1 for the put that creates the
   new activity) *)

\* the times Date.now() gives
Clock == {2, 3}

\* startActivity that creates the new activity first and stops the running
\* ones afterwards
StartStep_CreateFirst(call, i, now) ==
    IF appState.status # "unlocked" THEN {}
    ELSE LET s == appState.dataStore
         IN IF i > 1
            THEN IF NotFoundError(stores[s], call.running[i - 1]) # NoError THEN {}
                 ELSE LET updated == updatedActivity(stores[s], call.running[i - 1],
                                                     [f \in {"to"} |-> now])
                      IN {[store |-> s, op |-> "put", table |-> "activity",
                           doc |-> saveActivityDoc(updated), input |-> DataOf(updated),
                           cont |-> <<[call |-> call, i |-> i]>>, written |-> FALSE]}
            ELSE LET created == [task |-> call.task, tags |-> call.tags, from |-> now,
                                 to |-> Null, timezone |-> "UTC", _id |-> NoId,
                                 _rev |-> NoRev]
                 IN {[store |-> s, op |-> "put", table |-> "activity",
                      doc |-> [saveActivityDoc(created) EXCEPT !._id = id],
                      input |-> DataOf(created),
                      cont |-> <<[call |-> call, i |-> i]>>, written |-> FALSE] :
                       id \in {x \in ActivityIds \ InFlightIds :
                                  db[<<"activity", x>>].rev = NoRev}}

\* startActivity that stops nothing
StartStep_NoStop(call, i, now) ==
    IF appState.status # "unlocked" THEN {}
    ELSE LET s == appState.dataStore
             created == [task |-> call.task, tags |-> call.tags, from |-> now,
                         to |-> Null, timezone |-> "UTC", _id |-> NoId, _rev |-> NoRev]
         IN {[store |-> s, op |-> "put", table |-> "activity",
              doc |-> [saveActivityDoc(created) EXCEPT !._id = id],
              input |-> DataOf(created),
              cont |-> <<[call |-> call, i |-> Len(call.running) + 1]>>,
              written |-> FALSE] :
               id \in {x \in ActivityIds \ InFlightIds : db[<<"activity", x>>].rev = NoRev}}

\* the put a call of startActivity awaits next, as a set: empty when the call
\* throws (getDataStore while locked, updateActivity of an id that is not
\* cached).  For i within running it is the put of stopActivity(running[i]),
\* which is updateActivity(id, {to: Date.now()}); after that it is the put
\* of createActivity, for which EncryptedPouch makes a new id
StartStep(call, i, now) ==
    IF appState.status # "unlocked" THEN {}
    ELSE LET s == appState.dataStore
         IN IF i <= Len(call.running)
            THEN IF NotFoundError(stores[s], call.running[i]) # NoError THEN {}
                 ELSE LET updated == updatedActivity(stores[s], call.running[i],
                                                     [f \in {"to"} |-> now])
                      IN {[store |-> s, op |-> "put", table |-> "activity",
                           doc |-> saveActivityDoc(updated), input |-> DataOf(updated),
                           cont |-> <<[call |-> call, i |-> i]>>, written |-> FALSE]}
            ELSE LET created == [task |-> call.task, tags |-> call.tags, from |-> now,
                                 to |-> Null, timezone |-> "UTC", _id |-> NoId,
                                 _rev |-> NoRev]
                 IN {[store |-> s, op |-> "put", table |-> "activity",
                      doc |-> [saveActivityDoc(created) EXCEPT !._id = id],
                      input |-> DataOf(created),
                      cont |-> <<[call |-> call, i |-> i]>>, written |-> FALSE] :
                       id \in {x \in ActivityIds \ InFlightIds :
                                  db[<<"activity", x>>].rev = NoRev}}

\* startActivity(task, tags, autoStopRunning) up to its first await: running
\* is read from the cache when auto-stop is enabled
startActivity(task, tags, autoStopRunning, now) ==
    /\ appState.status = "unlocked"
    /\ LET running == IF autoStopRunning
                      THEN [j \in DOMAIN ActivityStore_runningActivities |->
                               ActivityStore_runningActivities[j]._id]
                      ELSE <<>>
           call == [running |-> running, task |-> task, tags |-> tags,
                    autoStopRunning |-> autoStopRunning]
       IN \E req \in StartStep(call, 1, now) : Issue(req)
    /\ UNCHANGED <<db, stores, appState>>

\* the put startActivity awaits has resolved: the call stops the next
\* running activity, creates the new one, throws, or, with the new activity
\* created, returns
StartContinues(req, now) ==
    /\ req.written
    /\ LET c == req.cont[1]
           next == StartStep(c.call, c.i + 1, now)
       IN IF c.i > Len(c.call.running) \/ next = {}
          THEN requests' = requests \ {req}
          ELSE \E r \in next : requests' = (requests \ {req}) \cup {r}
    /\ UNCHANGED <<db, stores, appState>>

\* what there is to start: the task and tags of the activity inputs
StartInputs == {[task |-> a.task, tags |-> a.tags] : a \in ActivityInputs}

\* starts that may overlap, auto-stop enabled
NextStart ==
    \/ unlock(Username, "p1") /\ UNCHANGED <<accounts, activityTimer, crypt, indicator>>
    \/ (\E s \in DOMAIN stores : LoadAllDone(s)) /\ UNCHANGED <<accounts, activityTimer, crypt, indicator>>
    \/ (\E a \in StartInputs, now \in Clock : startActivity(a.task, a.tags, TRUE, now))
          /\ UNCHANGED <<accounts, activityTimer, crypt, indicator>>
    \/ (\E req \in requests : DbPut(req)) /\ UNCHANGED <<accounts, activityTimer, crypt, indicator>>
    \/ (\E req \in requests, now \in Clock : StartContinues(req, now))
          /\ UNCHANGED <<accounts, activityTimer, crypt, indicator>>
    \/ (\E s \in DOMAIN stores, n \in 1..MaxOps : Deliver(s, n))
          /\ UNCHANGED <<accounts, activityTimer, crypt, indicator>>

SpecStart == Init /\ [][NextStart]_vars

\* one call at a time: a start is called only when nothing is in flight and
\* no event is pending; auto-stop is enabled or not
NextStartAlone ==
    \/ unlock(Username, "p1") /\ stores = <<>> /\ UNCHANGED <<accounts, activityTimer, crypt, indicator>>
    \/ (\E s \in DOMAIN stores : LoadAllDone(s)) /\ UNCHANGED <<accounts, activityTimer, crypt, indicator>>
    \/ (\E a \in StartInputs, now \in Clock, autoStopRunning \in BOOLEAN :
          /\ requests = {}
          /\ Quiet
          /\ startActivity(a.task, a.tags, autoStopRunning, now))
          /\ UNCHANGED <<accounts, activityTimer, crypt, indicator>>
    \/ (\E req \in requests : DbPut(req)) /\ UNCHANGED <<accounts, activityTimer, crypt, indicator>>
    \/ (\E req \in requests, now \in Clock : StartContinues(req, now))
          /\ UNCHANGED <<accounts, activityTimer, crypt, indicator>>
    \/ (\E s \in DOMAIN stores, n \in 1..MaxOps : Deliver(s, n))
          /\ UNCHANGED <<accounts, activityTimer, crypt, indicator>>

SpecStartAlone == Init /\ [][NextStartAlone]_vars

\* the activities that are running according to the database
StoredRunning == {k[2] : k \in {x \in LiveKeys("activity") : db[x].body.to = Null}}

\* C34: with one call at a time, when a startActivity with auto-stop
\* returns, the new activity is the only one that is running in the database
\* and every activity the call found running has a to; and once nothing is
\* in flight and no event is pending the cache shows the running activities
\* of the database
C34_StartLeavesOneRunning ==
    /\ [][\A req \in requests, now \in Clock :
             (StartContinues(req, now) /\ req.cont[1].i > Len(req.cont[1].call.running)
                /\ req.cont[1].call.autoStopRunning)
                => /\ StoredRunning = {req.doc._id}
                   /\ \A j \in DOMAIN req.cont[1].call.running :
                         /\ db[<<"activity", req.cont[1].call.running[j]>>].live
                         /\ db[<<"activity", req.cont[1].call.running[j]>>].body.to # Null]_vars
    /\ []((Quiet /\ requests = {})
             => {Session.activities[i]._id :
                    i \in {j \in DOMAIN Session.activities : Session.activities[j].to = Null}}
                   = StoredRunning)

\* a start with auto-stop has stopped the first activity and created the
\* second, everything has settled, and the cache shows only the second as
\* running
C34_Witness ==
    /\ Quiet
    /\ requests = {}
    /\ db[<<"activity", "a1">>].live
    /\ db[<<"activity", "a1">>].body.to # Null
    /\ StoredRunning = {"a2"}
    /\ Len(Session.activities) = 2
    /\ Len(ActivityStore_runningActivities) = 1
    /\ ActivityStore_runningActivities[1]._id = "a2"

\* C35: with starts that may overlap, all with auto-stop, at most one
\* activity is running once nothing is in flight and no event is pending
C35_OverlappingStartsLeaveOneRunning ==
    (Quiet /\ requests = {})
       => /\ Cardinality(StoredRunning) <= 1
          /\ Len(ActivityStore_runningActivities) <= 1

----------------------------------------------------------------------------
(* updateSettings and a connection that hangs *)

\* the local steps are taken whenever they can be: the database acknowledges
\* a write, the promise of saveSettings resolves, the change feed delivers.
\* Nothing is assumed of the network: connectRemote may stay pending for ever
SpecNetwork ==
    /\ Init /\ [][NextSettings]_vars
    /\ WF_vars((\E req \in requests : DbPut(req))
                  /\ UNCHANGED <<accounts, activityTimer, crypt, indicator>>)
    /\ WF_vars((\E req \in requests : Resolve(req))
                  /\ UNCHANGED <<accounts, activityTimer, crypt, indicator>>)
    /\ WF_vars((\E s \in DOMAIN stores, n \in 1..MaxOps : Deliver(s, n))
                  /\ UNCHANGED <<accounts, activityTimer, crypt, indicator>>)

\* a call of updateSettings has not returned: it awaits saveSettings, or it
\* awaits connectToSync
UpdateSettingsPending ==
    \/ \E req \in requests : req.table = "settings" /\ req.cont # <<>>
    \/ \E s \in DOMAIN stores : stores[s].sync.awaited

\* C37: updateSettings returns once the local settings write is acknowledged,
\* even if the connection it starts never completes: whenever a call of
\* updateSettings is pending, the local steps alone bring the program to a
\* state where none is
C37_UpdateSettingsResolves == UpdateSettingsPending ~> ~UpdateSettingsPending

----------------------------------------------------------------------------
(* One code path for the initial load and for live updates *)

\* the documents of the delivery check: three ids, in _id order
DeliveryIdSeq == <<"a1", "a2", "a3">>
DeliveryKeys == DocKeys \cup {<<"activity", DeliveryIdSeq[i]>> : i \in DOMAIN DeliveryIdSeq}

\* the ways to list every element of a set once
Orders(S) ==
    {o \in [1..Cardinality(S) -> S] : \A i, j \in 1..Cardinality(S) : o[i] = o[j] => i = j}

RECURSIVE allDocs(_, _)
\* allDocs over a database: its live activity documents in _id order, from
\* position i on
allDocs(base, i) ==
    IF i > Len(DeliveryIdSeq) THEN <<>>
    ELSE LET k == <<"activity", DeliveryIdSeq[i]>>
         IN (IF base[k].live THEN <<DocOf(k, base[k])>> ELSE <<>>) \o allDocs(base, i + 1)

\* the collection DataStore.loadAll builds over a database: every document
\* handed to onChange in one call
LoadedActivities(base) ==
    handleChange(NewStore(Username, "p1"),
                 <<[table |-> "activity", docs |-> allDocs(base, 1)]>>).activities

\* a session that has loaded an empty database; another device then wrote
\* activities with pairwise distinct ids and from values, which replication
\* stored and queued as change events in some order
InitDelivery ==
    /\ \E ids \in (SUBSET {DeliveryIdSeq[i] : i \in DOMAIN DeliveryIdSeq}) \ {{}} :
       \E froms \in [ids -> 1..Len(DeliveryIdSeq)] :
       \E order \in Orders(ids) :
          /\ \A x, y \in ids : froms[x] = froms[y] => x = y
          /\ db = [k \in DeliveryKeys |->
                     IF k[1] = "activity" /\ k[2] \in ids
                     THEN [rev |-> 1, live |-> TRUE, key |-> "p1",
                           body |-> [task |-> "review", tags |-> <<>>, from |-> froms[k[2]],
                                     to |-> Null, timezone |-> "UTC"],
                           input |-> NoBody]
                     ELSE NoDoc]
          /\ stores = <<[NewStore(Username, "p1") EXCEPT
                            !.phase = "ready", !.isLoading = FALSE,
                            !.feed = [j \in 1..Cardinality(ids) |->
                                         [kind |-> "change", table |-> "activity",
                                          doc |-> DocOf(<<"activity", order[j]>>,
                                                        db[<<"activity", order[j]>>])]]]>>
    /\ appState = [status |-> "unlocked", username |-> Username, dataStore |-> 1]
    /\ requests = {}
    /\ accounts = {Username}
    /\ activityTimer = NoTimer
    /\ crypt = NoCrypt
    /\ indicator = IndicatorMounted

\* the change feed hands the pending events to onChange, in batches of any size
NextDelivery ==
    \/ (\E s \in DOMAIN stores, n \in 1..MaxOps : Deliver(s, n)) /\ UNCHANGED <<accounts, activityTimer, crypt, indicator>>

SpecDelivery == InitDelivery /\ [][NextDelivery]_vars

\* C38: the initial load and the live updates go through the same
\* handleChange: for activities with pairwise distinct ids and from values,
\* once every change event has been delivered, in whatever order and in
\* whatever batches, the collection is the one loadAll builds from the same
\* documents
C38_CacheIsFunctionOfDelivered ==
    Session.feed = <<>> => Session.activities = LoadedActivities(db)

\* three activities were delivered live; the collection lists them by from,
\* which is neither their _id order nor the reverse
C38_Witness ==
    /\ Session.feed = <<>>
    /\ Len(Session.activities) = 3
    /\ Session.activities[1]._id = "a2"
    /\ Session.activities[2]._id = "a3"
    /\ Session.activities = LoadedActivities(db)

----------------------------------------------------------------------------
(* SyncIndicator.svelte *)

MaxEvents == 2

\* SyncInfo of a sync event: direction, change.docs_read, change.docs_written
\* and the length of change.errors
SyncInfos ==
    [direction : {"push", "pull", "both"}, docs_read : {0, 1}, docs_written : {0, 1},
     errors : {0, 1}]

\* processQueue that sets no timeout: the state it shows stays
processQueue_NoTimeout(ind) ==
    IF ind.isAnimating \/ ind.animationQueue = <<>> THEN ind
    ELSE LET nextState == Head(ind.animationQueue)
             shown == [ind EXCEPT !.animationQueue = Tail(@), !.currentState = nextState]
         IN IF nextState = "error" THEN [shown EXCEPT !.isAnimating = FALSE]
            ELSE [shown EXCEPT !.isAnimating = TRUE]

\* processQueue: show the next queued state unless an animation is running;
\* 'error' stays, every other state gets a timeout of 800 ms
processQueue(ind) ==
    IF ind.isAnimating \/ ind.animationQueue = <<>> THEN ind
    ELSE LET nextState == Head(ind.animationQueue)
             shown == [ind EXCEPT !.animationQueue = Tail(@), !.currentState = nextState]
         IN IF nextState = "error" THEN [shown EXCEPT !.isAnimating = FALSE]
            ELSE [shown EXCEPT !.isAnimating = TRUE, !.timers = @ + 1]

\* handleSync(info)
handleSync(ind, info) ==
    LET cleared == IF ind.currentState = "syncing"
                   THEN [ind EXCEPT !.currentState = "idle", !.animationQueue = <<>>,
                                    !.isAnimating = FALSE]
                   ELSE ind
        hasChanges == info.docs_read > 0 \/ info.docs_written > 0
        push == IF info.direction \in {"push", "both"} /\ info.docs_written > 0
                THEN <<"push">> ELSE <<>>
        pull == IF info.direction \in {"pull", "both"} /\ info.docs_read > 0
                THEN <<"pull">> ELSE <<>>
    IN IF info.errors > 0
       THEN processQueue([cleared EXCEPT !.animationQueue = Append(@, "error")])
       ELSE IF ~hasChanges
       THEN processQueue([cleared EXCEPT !.animationQueue = Append(@, "ready")])
       ELSE processQueue([cleared EXCEPT !.animationQueue = @ \o push \o pull \o <<"ready">>])

\* clearError()
clearError(ind) ==
    [ind EXCEPT !.currentState = "idle", !.animationQueue = <<>>, !.isAnimating = FALSE]

\* the button is disabled unless the state is 'idle' or 'error'
Clickable(ind) == ind.currentState \in {"idle", "error"}

\* a click on the indicator: handleClick, and handleSyncNow of the main view,
\* which starts a manual pass on the DataStore of the session (getDataStore
\* throws while locked: the error is logged and no pass starts)
handleClick ==
    /\ Clickable(indicator)
    /\ indicator' =
          IF indicator.currentState = "error" THEN clearError(indicator)
          ELSE [indicator EXCEPT !.currentState = "syncing",
                                 !.passes = IF appState.status = "unlocked" THEN @ + 1 ELSE @]
    /\ UNCHANGED <<db, stores, appState, requests, accounts, activityTimer, crypt>>

\* the timeout of an animation fires
AnimationTimeout ==
    /\ indicator.timers > 0
    /\ indicator' =
          processQueue([indicator EXCEPT
                           !.timers = @ - 1,
                           !.currentState = IF @ # "error" THEN "idle" ELSE @,
                           !.isAnimating = FALSE])
    /\ UNCHANGED <<db, stores, appState, requests, accounts, activityTimer, crypt>>

\* the live replication of the session reports progress: onSync reaches
\* handleSync of the indicator
SyncEvent(info) ==
    /\ appState.status = "unlocked"
    /\ Session.sync.st = "connected"
    /\ indicator.events < MaxEvents
    /\ indicator' = [handleSync(indicator, info) EXCEPT !.events = @ + 1]
    /\ UNCHANGED <<db, stores, appState, requests, accounts, activityTimer, crypt>>

\* a manual pass completes or fails: the store fires onSync with what it
\* transferred, or with its errors, and syncNow resolves
PassSettles(info) ==
    /\ indicator.passes > 0
    /\ indicator' = [handleSync(indicator, info) EXCEPT !.passes = @ - 1]
    /\ UNCHANGED <<db, stores, appState, requests, accounts, activityTimer, crypt>>

\* the main view is mounted on a session that is unlocked and whose
\* replication is attached: the indicator is shown
InitIndicator ==
    /\ db = [k \in DocKeys |->
               IF k = <<"settings", getSettingsDocId(AppId)>>
               THEN [rev |-> 1, live |-> TRUE, key |-> "p1",
                     body |-> [syncMode |-> "couchdb", autoStopRunning |-> TRUE,
                               couchdb |-> Url1, theme |-> DEFAULT_SETTINGS.theme],
                     input |-> NoBody]
               ELSE NoDoc]
    /\ stores = <<[Loaded(NewStore(Username, "p1")) EXCEPT
                      !.sync = [st |-> "connected", url |-> Url1, awaited |-> FALSE]]>>
    /\ appState = [status |-> "unlocked", username |-> Username, dataStore |-> 1]
    /\ requests = {}
    /\ accounts = {Username}
    /\ activityTimer = NoTimer
    /\ crypt = NoCrypt
    /\ indicator = IndicatorMounted

NextIndicator ==
    \/ handleClick
    \/ AnimationTimeout
    \/ \E info \in SyncInfos : SyncEvent(info)
    \/ \E info \in SyncInfos : PassSettles(info)

\* a timeout that was set fires, and a manual pass completes or fails
SpecIndicator ==
    /\ InitIndicator /\ [][NextIndicator]_vars
    /\ WF_vars(AnimationTimeout)
    /\ WF_vars(\E info \in SyncInfos : PassSettles(info))

----------------------------------------------------------------------------
(* Properties of the SyncIndicator *)

\* C39: a sync event that reports errors puts the indicator into 'error' (at
\* once, or queued behind the animation that is running), and once the
\* indicator is in 'error' it stays there until a click dismisses it:
\* neither the timeout of an animation nor a later sync event changes it
C39_ErrorStaysUntilDismissed ==
    [][/\ \A info \in SyncInfos :
             ((SyncEvent(info) \/ PassSettles(info)) /\ info.errors > 0)
                => \/ indicator'.currentState = "error"
                   \/ \E i \in DOMAIN indicator'.animationQueue :
                         indicator'.animationQueue[i] = "error"
       /\ (indicator.currentState = "error" /\ indicator'.currentState # "error")
             => (handleClick /\ indicator' = clearError(indicator))]_vars

\* the timeout of an animation never takes the indicator out of 'error'
ErrorSurvivesTimeout ==
    [][(AnimationTimeout /\ indicator.currentState = "error")
          => indicator'.currentState = "error"]_vars

\* C40: after a click on the idle indicator has started a manual sync, the
\* indicator leaves 'syncing' and becomes clickable again, whether the pass
\* transfers documents, finds nothing to transfer, or fails
C40_SyncingEnds ==
    (indicator.currentState = "syncing") ~> Clickable(indicator)

\* a manual pass that failed has settled with no event of the live
\* replication in between: the indicator shows the error and can be clicked
C40_Witness ==
    /\ indicator.currentState = "error"
    /\ indicator.passes = 0
    /\ indicator.events = 0

====
